---- MODULE Spec2Model ----
(***************************************************************************)
(* Model of the series-level TMDB enrichment of iptvtester                 *)
(* (src/iptvtester/tmdb.py) as it is driven by run_once                    *)
(* (src/iptvtester/pipeline.py): enrich on the OK list, then enrich on the *)
(* FAIL list, both against one cache database.                             *)
(*                                                                         *)
(* Text is modelled at token granularity: a title is a sequence of         *)
(* whitespace-separated tokens, each token a record                        *)
(*   [k |-> kind, v |-> text, c |-> letter case, s |-> season, e |-> ep,   *)
(*    u |-> host and path].                                                *)
(* Kinds: "pfx"  a leading 'EN - ' / '|EN| - ' prefix with its separator,  *)
(*        "w"    a plain word (v is its lower-case spelling, c its case:   *)
(*               "l" lower, "T" Capitalized, "U" UPPER),                   *)
(*        "se"   a full 'S01 E05' / 'S01E05' token,                        *)
(*        "hs"   a lone 'S1', "he" a lone 'E2' (adjacent hs he form an se),*)
(*        "tech" a resolution / codec tag such as '1080p',                 *)
(*        "url"  a '//host/path' piece (u), "glue" such a piece joined by  *)
(*               ':' to a word: the one token '//host/path:word'.          *)
(***************************************************************************)
EXTENDS Integers, Sequences, FiniteSets, TLC

\* Python None: as a string where strings are expected, as a number for a
\* missing season / episode / id
None == "<none>"
NoNum == 0 - 1

\* ---------------------------------------------------------------- tokens
NoPre == [netloc |-> "", segs |-> <<>>]
W(v, c)  == [k |-> "w",    v |-> v,       c |-> c,   s |-> 0, e |-> 0, u |-> NoPre]
SE(s, e) == [k |-> "se",   v |-> "",      c |-> "",  s |-> s, e |-> e, u |-> NoPre]
HS(s)    == [k |-> "hs",   v |-> "",      c |-> "",  s |-> s, e |-> 0, u |-> NoPre]
HE(e)    == [k |-> "he",   v |-> "",      c |-> "",  s |-> 0, e |-> e, u |-> NoPre]
TECH     == [k |-> "tech", v |-> "1080p", c |-> "",  s |-> 0, e |-> 0, u |-> NoPre]
PFX(p)   == [k |-> "pfx",  v |-> p,       c |-> "",  s |-> 0, e |-> 0, u |-> NoPre]
Url(u)   == [k |-> "url",  v |-> "",      c |-> "",  s |-> 0, e |-> 0, u |-> u]
\* '//host/path:' followed by the word w
Glue(u, w) == [w EXCEPT !.k = "glue", !.u = u]
GlueBare(u) == [k |-> "glue", v |-> "",   c |-> "",  s |-> 0, e |-> 0, u |-> u]

\* words of at most two letters (left alone by the worker's capitalisation)
ShortWords == {"of"}

\* str.lower() on one token / on a text
LowerTok(t) == IF t.k = "w" THEN [t EXCEPT !.c = "l"] ELSE t
Lower(txt) == [i \in 1..Len(txt) |-> LowerTok(txt[i])]

\* w.capitalize() if len(w) > 2 else w
CapTok(t) == IF t.k = "w" /\ t.v \notin ShortWords THEN [t EXCEPT !.c = "T"] ELSE t
Capitalize(txt) == [i \in 1..Len(txt) |-> CapTok(txt[i])]

\* txt without the tokens whose kind is in kinds, in order
RECURSIVE FilterToks(_, _)
FilterToks(txt, kinds) ==
    IF txt = <<>> THEN <<>>
    ELSE IF Head(txt).k \in kinds THEN FilterToks(Tail(txt), kinds)
         ELSE <<Head(txt)>> \o FilterToks(Tail(txt), kinds)

\* ---------------------------------------------------------------- prefix / title helpers
UpperCodes == {"EN", "DE", "EXYU"}

\* A group label is [code |-> leading code as written ("" when none), name |-> rest].
detect_prefix(g) ==
    IF g.code \in UpperCodes THEN g.code ELSE "EN"

strip_leading_prefix(title) ==
    IF title # <<>> /\ Head(title).k = "pfx" THEN Tail(title) ELSE title

\* _TECH_RE .. _EP_LABELS_RE substitutions, whitespace squeeze, dash trim
base_noise_strip(t) == FilterToks(t, {"tech"})

\* One left-to-right pass of _SE_TOKEN_RE.sub: a full token, or a lone S..
\* directly followed by a lone E.., is a match; matches do not overlap.
RECURSIVE SeScan(_)
SeScan(txt) ==
    IF txt = <<>> THEN [text |-> <<>>, found |-> <<>>]
    ELSE IF Head(txt).k = "se"
         THEN LET r == SeScan(Tail(txt))
              IN  [text |-> r.text, found |-> <<<<Head(txt).s, Head(txt).e>>>> \o r.found]
    ELSE IF Head(txt).k = "hs" /\ Len(txt) >= 2 /\ txt[2].k = "he"
         THEN LET r == SeScan(Tail(Tail(txt)))
              IN  [text |-> r.text, found |-> <<<<txt[1].s, txt[2].e>>>> \o r.found]
    ELSE LET r == SeScan(Tail(txt))
         IN  [text |-> <<Head(txt)>> \o r.text, found |-> r.found]

\* returns (text without the matches, season, episode of the first match)
strip_all_se_tokens(text) ==
    LET r == SeScan(text)
    IN  [text |-> r.text,
         s |-> IF r.found = <<>> THEN NoNum ELSE r.found[1][1],
         e |-> IF r.found = <<>> THEN NoNum ELSE r.found[1][2]]

\* position of the first ' Sxx Eyy' in cleaned text that has text before it
\* (re.split(r'\sS\d{1,2}\sE\d{1,2}\b', cleaned, maxsplit=1)); 0 when none
SplitPos(cleaned) ==
    LET hits == {i \in 2..Len(cleaned) :
                    cleaned[i].k = "hs" /\ i < Len(cleaned) /\ cleaned[i+1].k = "he"}
    IN  IF hits = {} THEN 0 ELSE CHOOSE i \in hits : \A j \in hits : i <= j

normalize_series_and_episode(raw_title) ==
    LET no_prefix == strip_leading_prefix(raw_title)
        r         == strip_all_se_tokens(no_prefix)
        cleaned   == base_noise_strip(r.text)
        p         == SplitPos(cleaned)
        tailRaw   == IF p = 0 THEN <<>> ELSE SubSeq(cleaned, p + 2, Len(cleaned))
    IN  [series_query |-> IF p = 0 THEN cleaned ELSE SubSeq(cleaned, 1, p - 1),
         season       |-> r.s,
         episode      |-> r.e,
         ep_name      |-> strip_all_se_tokens(tailRaw).text]

\* A URL is [scheme, netloc, segs]: segs the path segments, the file last.
provider_base(url) ==
    [scheme |-> url.scheme, netloc |-> url.netloc,
     segs   |-> IF url.segs = <<>> THEN <<>> ELSE SubSeq(url.segs, 1, Len(url.segs) - 1)]

\* ---------------------------------------------------------------- occurrence key
\* f"series:{lang}:{pf}:{base}:{sk}", kept as its four interpolated fields
OccKey(lang, pf, base, sk) == [lang |-> lang, pf |-> pf, base |-> base, sk |-> sk]

RawOf(it) == IF it.title # <<>> THEN it.title ELSE it.tvgname

\* lines 397-403: the key enrich computes for one entry
KeyOf(it, lang) ==
    LET n == normalize_series_and_episode(RawOf(it))
    IN  OccKey(lang, detect_prefix(it.group), provider_base(it.url), Lower(n.series_query))

\* occ_key.split(":", 4): the rendered key carries the ':' of 'scheme://', so
\* parts[3] is the scheme alone and parts[4] is '//host/path:' + series key.
KeyParts(k) ==
    LET u == [netloc |-> k.base.netloc, segs |-> k.base.segs]
    IN  [lang_p  |-> k.lang,
         pf_p    |-> k.pf,
         base_p  |-> [scheme |-> k.base.scheme, netloc |-> None, segs |-> <<>>],
         sk_part |-> IF k.sk = <<>> THEN <<GlueBare(u)>>
                     ELSE <<Glue(u, k.sk[1])>> \o Tail(k.sk)]

\* " ".join(w.capitalize() if len(w) > 2 else w for w in sk_part.split()):
\* the first whitespace token starts with '/', so capitalize leaves it as it is
sk_pretty(k) == Capitalize(KeyParts(k).sk_part)

\* ---------------------------------------------------------------- title simplification
max_cands == 6

InSeq(x, sq) == \E i \in 1..Len(sq) : sq[i] = x

\* the token-backoff loop, keep = len(toks)-1 .. 2
RECURSIVE Backoff(_, _, _)
Backoff(q, keep, cands) ==
    IF keep < 2 THEN cands
    ELSE LET c  == SubSeq(q, 1, keep)
             c2 == IF InSeq(c, cands) THEN cands ELSE Append(cands, c)
         IN  IF Len(c2) >= max_cands THEN c2 ELSE Backoff(q, keep - 1, c2)

\* tokens a query can hold besides words: a dash standing alone (' - '), a
\* token that opens a parenthesis ('(Uncut)'), a word that ends in a colon
DASH     == [k |-> "dash",  v |-> "-",     c |-> "",  s |-> 0, e |-> 0, u |-> NoPre]
PAREN    == [k |-> "paren", v |-> "uncut", c |-> "",  s |-> 0, e |-> 0, u |-> NoPre]
WC(v, c) == [k |-> "wc",    v |-> v,       c |-> c,   s |-> 0, e |-> 0, u |-> NoPre]

\* smallest member of a set of positions, 0 when there is none
FirstOf(ps) == IF ps = {} THEN 0 ELSE CHOOSE i \in ps : \A j \in ps : i <= j

\* _DASH_SPLIT_RE.split(t, 1)[0]: the text before the first dash that has
\* whitespace on both sides; <<>> when there is no such dash
BeforeDash(q) ==
    LET i == FirstOf({j \in 2..(Len(q) - 1) : q[j].k = "dash"})
    IN  IF i = 0 THEN <<>> ELSE SubSeq(q, 1, i - 1)

\* t.split('(', 1)[0].strip()
BeforeParen(q) ==
    LET i == FirstOf({j \in 1..Len(q) : q[j].k = "paren"})
    IN  IF i = 0 THEN q ELSE SubSeq(q, 1, i - 1)

\* t.split(':', 1)[0].strip(); <<>> when t has no ':'
BeforeColon(q) ==
    LET i == FirstOf({j \in 1..Len(q) : q[j].k \in {"wc", "glue"}})
    IN  IF i = 0 THEN <<>>
        ELSE SubSeq(q, 1, i - 1)
                \o <<IF q[i].k = "glue" THEN Url(q[i].u) ELSE W(q[i].v, q[i].c)>>

\* the list built without looking whether a piece is in it already
simplify_candidates_all(q) ==
    IF q = <<>> THEN <<>>
    ELSE LET all == <<q>>
                    \o (IF BeforeDash(q) # <<>> THEN <<BeforeDash(q)>> ELSE <<>>)
                    \o (IF BeforeParen(q) # <<>> THEN <<BeforeParen(q)>> ELSE <<>>)
                    \o (IF BeforeColon(q) # <<>> THEN <<BeforeColon(q)>> ELSE <<>>)
                    \o [n \in 1..(IF Len(q) > 2 THEN Len(q) - 2 ELSE 0) |->
                           SubSeq(q, 1, Len(q) - n)]
         IN  SubSeq(all, 1, IF Len(all) < max_cands THEN Len(all) ELSE max_cands)

simplify_candidates(q) ==
    IF q = <<>> THEN <<>>
    ELSE LET c0  == <<q>>
             d   == BeforeDash(q)
             c1  == IF d # <<>> THEN Append(c0, d) ELSE c0
             p   == BeforeParen(q)
             c2  == IF p # <<>> /\ ~InSeq(p, c1) THEN Append(c1, p) ELSE c1
             pre == BeforeColon(q)
             c3  == IF pre # <<>> /\ ~InSeq(pre, c2) THEN Append(c2, pre) ELSE c2
             c4  == Backoff(q, Len(q) - 1, c3)
         IN  SubSeq(c4, 1, IF Len(c4) < max_cands THEN Len(c4) ELSE max_cands)

\* ---------------------------------------------------------------- TMDB HTTP
\* A reply of the remote service: a transport exception, or a status with a
\* body that is no JSON, a JSON array (unexpected shape) or a JSON object
\* holding a list of results.
ExcReply          == [t |-> "exc",  status |-> 0,  body |-> "",        results |-> <<>>]
HttpReply(st)     == [t |-> "http", status |-> st, body |-> "nonjson", results |-> <<>>]
ShapeReply(b)     == [t |-> "http", status |-> 200, body |-> b,        results |-> <<>>]
ObjectReply(rs)   == [t |-> "http", status |-> 200, body |-> "object", results |-> rs]

Item(id, mt, name, title, poster, gids) ==
    [id |-> id, media_type |-> mt, name |-> name, title |-> title,
     poster_path |-> poster, genre_ids |-> gids]

\* outcome of one search call: an error dict, a match dict, or an exception
ErrRes(msg) == [kind |-> "error", error |-> msg, tmdb_id |-> NoNum, media_type |-> None,
                title |-> <<>>, poster_path |-> "", genre_ids |-> <<>>]
RaiseRes    == [ErrRes("AttributeError") EXCEPT !.kind = "raise"]
Match(id, mt, title, poster, gids) ==
    [kind |-> "match", error |-> "", tmdb_id |-> id, media_type |-> mt,
     title |-> title, poster_path |-> poster, genre_ids |-> gids]

\* the status / body checks _search_tv and _search_multi share
ReplyError(r) ==
    IF r.t = "exc" THEN "request-error"
    ELSE IF r.status = 401 THEN "401 unauthorized (bad API key?)"
    ELSE IF r.status = 429 THEN "429 rate limited"
    ELSE IF r.status >= 500 THEN "server error"
    ELSE IF r.status # 200 THEN "http"
    ELSE IF r.body = "nonjson" THEN "non-json response"
    ELSE ""

search_tv(r) ==
    IF ReplyError(r) # "" THEN ErrRes(ReplyError(r))
    ELSE IF r.body # "object" THEN RaiseRes
    ELSE IF r.results = <<>> THEN ErrRes("no results")
    ELSE LET best == r.results[1]
         IN  Match(best.id, "tv", best.name, best.poster_path, best.genre_ids)

\* a selection that takes the first item whatever its kind
MultiFirst(results) == results[1]

\* prefer TV, else the first item
MultiBest(results) ==
    LET tv == {i \in 1..Len(results) : results[i].media_type = "tv"}
    IN  IF tv = {} THEN results[1]
        ELSE results[CHOOSE i \in tv : \A j \in tv : i <= j]

search_multi(r) ==
    IF ReplyError(r) # "" THEN ErrRes(ReplyError(r))
    ELSE IF r.body # "object" THEN RaiseRes
    ELSE IF r.results = <<>> THEN ErrRes("no results")
    ELSE LET best == MultiBest(r.results)
         IN  Match(best.id, best.media_type,
                   IF best.name # <<>> THEN best.name ELSE best.title,
                   best.poster_path, best.genre_ids)

Search(ep, r) == IF ep = "tv" THEN search_tv(r) ELSE search_multi(r)

\* _fetch_detail_genre: d is what the detail request yields ("raise" for a
\* body of unexpected shape, None for every caught failure, else a name)
fetch_detail_genre(media_type, tmdb_id, d) ==
    IF tmdb_id = NoNum \/ tmdb_id = 0 \/ media_type \notin {"movie", "tv"} THEN None
    ELSE d

\* ---------------------------------------------------------------- rows of tmdb_series_occ
NullBase == [scheme |-> None, netloc |-> None, segs |-> <<>>]

Row(id, mt, title, poster, lang, pf, base, sk, genre, at, err) ==
    [tmdb_id |-> id, media_type |-> mt, title |-> title, poster_path |-> poster,
     lang |-> lang, prefix |-> pf, provider_base |-> base, series_key |-> sk,
     primary_genre |-> genre, created_at |-> at, last_error |-> err]

\* lines 415-419: the INSERT OR IGNORE placeholder
Placeholder(k, now) ==
    Row(NoNum, None, <<>>, "", k.lang, k.pf, k.base, k.sk, None, now, None)

\* a test that takes every row with an id, whatever its kind
PositiveAnyKind(row) == row.tmdb_id # NoNum /\ row.tmdb_id # 0

\* row[1] in ("tv","movie") and row[0]
Positive(row) == row.media_type \in {"tv", "movie"} /\ row.tmdb_id # NoNum /\ row.tmdb_id # 0

\* first id of ids that the map knows, None when there is none
RECURSIVE FirstGenre(_, _)
FirstGenre(ids, gmap) ==
    IF ids = <<>> THEN None
    ELSE IF Head(ids) \in DOMAIN gmap THEN gmap[Head(ids)]
    ELSE FirstGenre(Tail(ids), gmap)

\* lines 459-466: the query the worker starts with
first_q(k, sample_q) ==
    IF sample_q # <<>> THEN Capitalize(sample_q) ELSE sk_pretty(k)

\* lines 468-470: every request _try_tmdb(first_q) or _try_tmdb(sk_pretty)
\* can come to send, in order
TryPlan(q) ==
    LET c == simplify_candidates(q)
    IN  [i \in 1..Len(c) |-> [ep |-> "tv", q |-> c[i]]]
        \o [i \in 1..Len(c) |-> [ep |-> "multi", q |-> c[i]]]

Plan(k, sample_q) == TryPlan(first_q(k, sample_q)) \o TryPlan(sk_pretty(k))

\* a lookup that takes the tv taxonomy for every kind of match
GenreFromTvMap(res, tvmap, moviemap) ==
    IF res.media_type \in {"tv", "movie"} THEN FirstGenre(res.genre_ids, tvmap)
    ELSE None

GenreFromMaps(res, tvmap, moviemap) ==
    IF res.media_type = "tv" THEN FirstGenre(res.genre_ids, tvmap)
    ELSE IF res.media_type = "movie" THEN FirstGenre(res.genre_ids, moviemap)
    ELSE None

\* lines 470 and 489-501: what worker returns (at is the persist time)
NegativeRow(at) ==
    Row(NoNum, None, <<>>, "", None, None, NullBase, <<>>, None, at, "no results")

WorkerRow(k, sample_q, res, genre, at) ==
    LET p == KeyParts(k)
        fq == first_q(k, sample_q)
    IN  Row(res.tmdb_id, res.media_type,
            IF res.title # <<>> THEN res.title ELSE fq,
            res.poster_path, p.lang_p, p.pf_p, p.base_p, p.sk_part, genre, at, None)

\* ---------------------------------------------------------------- apply to items
LogoHost == "https://image.tmdb.org/t/p/w154"

\* f"{pf} - {series_title}{se_part}{ep_tail}".strip()
Display(pf, series_title, s, e, ep_name) ==
    <<PFX(pf)>> \o series_title
        \o (IF s # NoNum /\ e # NoNum THEN <<SE(s, e)>> ELSE <<>>)
        \o ep_name

\* a rewrite that leaves the group-title of an unresolved member as it came
ApplyItemKeepGroup(it, pf, s, e, ep_name, hit, occ_row) ==
    LET series_query == normalize_series_and_episode(RawOf(it)).series_query
        series_title == IF hit
                        THEN base_noise_strip(strip_leading_prefix(
                                 IF occ_row.title # <<>> THEN occ_row.title ELSE series_query))
                        ELSE series_query
        display      == Display(pf, series_title, s, e, ep_name)
    IN  [it EXCEPT !.display_title = display,
                   !.title = display,
                   !.tvgname = display,
                   !.season = s,
                   !.episode = e,
                   !.logo = IF hit /\ occ_row.poster_path # ""
                            THEN <<LogoHost, occ_row.poster_path>> ELSE @,
                   !.group = IF hit /\ occ_row.primary_genre # None
                             THEN [code |-> pf, name |-> occ_row.primary_genre] ELSE @]

\* lines 538-572 for one member; hit = FALSE when the cluster has no usable row
ApplyItem(it, pf, s, e, ep_name, hit, occ_row) ==
    LET series_query == normalize_series_and_episode(RawOf(it)).series_query
        series_title == IF hit
                        THEN base_noise_strip(strip_leading_prefix(
                                 IF occ_row.title # <<>> THEN occ_row.title ELSE series_query))
                        ELSE series_query
        poster       == IF hit THEN occ_row.poster_path ELSE ""
        display      == Display(pf, series_title, s, e, ep_name)
        gname        == IF hit /\ occ_row.media_type \in {"movie", "tv"}
                           /\ occ_row.primary_genre # None
                        THEN occ_row.primary_genre ELSE "Uncategorized"
    IN  [it EXCEPT !.display_title = display,
                   !.title = display,
                   !.tvgname = display,
                   !.season = s,
                   !.episode = e,
                   !.logo = IF poster # "" THEN <<LogoHost, poster>> ELSE @,
                   !.group = [code |-> pf, name |-> gname]]

\* ---------------------------------------------------------------- configuration
\* config.py: DEFAULTS["TMDB"] and what _deep_update lays over it.  A yaml
\* setting is "<unset>" when config.yaml does not name the option.
Unset == "<unset>"
DefaultApiKey == ""
DefaultLanguage == "en-US"
DefaultParallelism == 24
ApiKeySettings == {Unset, None, "", "  ", "k3y"}
\* one lookup at a time, or the default pool size
Parallelisms == {1, DefaultParallelism}

load_config(yamlKey, par) ==
    [API_KEY     |-> IF yamlKey = Unset THEN DefaultApiKey ELSE yamlKey,
     LANGUAGE    |-> DefaultLanguage,
     PARALLELISM |-> par]

\* the credential taken without .strip(): a blank one counts as a key
StripKeyVerbatim(v) == IF v \in {None, ""} THEN "" ELSE v

\* (cfg["TMDB"]["API_KEY"] or "").strip()
StripKey(v) == IF v \in {None, "", "  "} THEN "" ELSE v

\* ---------------------------------------------------------------- inputs
\* the playlist holds at most MaxItems entries; probing splits it in two
MaxItems == 2
\* run_once calls enrich twice: on the OK list, then on the FAIL list
NumRuns == 2

Stream(file) == [scheme |-> "http", netloc |-> "h", segs |-> <<"path", file>>]

Entry(title, file, code) ==
    [url |-> Stream(file), title |-> title, tvgname |-> title,
     logo |-> <<"http://logos", "/provider.png">>,
     group |-> [code |-> code, name |-> "Series"],
     display_title |-> <<>>, season |-> NoNum, episode |-> NoNum]

BB(c) == <<W("breaking", c), W("bad", c)>>

\* parsed playlist entries the two lists are drawn from
Pool ==
    << Entry(<<PFX("EN")>> \o BB("T") \o <<SE(1, 1), W("pilot", "T")>>, "a.ts", "EN"),
       Entry(<<PFX("EN")>> \o BB("T") \o <<TECH, SE(1, 5), W("gray", "T"), W("matter", "T")>>,
             "b.ts", "EN"),
       Entry(<<PFX("EN")>> \o BB("T") \o <<SE(1, 2)>>, "c.ts", "EN"),
       Entry(<<PFX("EN")>> \o BB("U") \o <<SE(1, 3)>>, "d.ts", "") >>

\* the entries of Pool at the positions in idx, in playlist order
RECURSIVE Pick(_, _)
Pick(idx, from) ==
    IF from > Len(Pool) THEN <<>>
    ELSE IF from \in idx THEN <<Pool[from]>> \o Pick(idx, from + 1)
         ELSE Pick(idx, from + 1)

\* replies of the remote service to a search request
ItemShow   == Item(7, "tv", BB("T"), <<>>, "/p.jpg", <<1>>)

Replies ==
    { ExcReply, HttpReply(401), HttpReply(429), HttpReply(500), HttpReply(404),
      ShapeReply("nonjson"), ShapeReply("array"), ObjectReply(<<>>),
      ObjectReply(<<ItemShow>>) }

\* what a genre-list request can come to
\* ("items": an object whose genres hold an item without a name)
GenreOutcomes == {"exc", "non200", "nonjson", "array", "items", "ok"}
\* what the detail request can come to
DetailOutcomes == {None, "Comedy", "raise"}

TvGenres    == (1 :> "Drama")
MovieGenres == (2 :> "Action")
NoGenres    == <<>>
\* a fetched list with an item {"id": 1} that has no name
BadGenres   == (1 :> None)

\* ---------------------------------------------------------------- state
VARIABLES
    cfg,          \* the loaded configuration
    lists,        \* <<OK list, FAIL list>> as probing left them
    run,          \* which enrich call of run_once is active
    pc,           \* where the main thread is
    exc,          \* the exception that ended the pipeline, None when none
    items,        \* the list enrich works on (rewritten in place)
    occ,          \* table tmdb_series_occ: key -> row
    members,      \* table tmdb_series_members
    genres,       \* table tmdb_genres: the row of the language
    gmaps,        \* movie_gmap, tv_gmap of this call
    occ_index,    \* key -> cluster; order is its insertion order
    order,
    wk,           \* to_fetch key -> future / worker state
    doneQ,        \* futures in completion order, not yet seen by as_completed
    fetched_occ,
    calls,        \* history: the keys a search request was sent for in this call
    tasks,        \* history: lookup tasks run per key in this pipeline
    writes,       \* history: lookup outcomes written per key in this call
    io,           \* history: cache opened / network used in this call
    occ0          \* history: tmdb_series_occ as this call found it

\* The other parts of the program, each followed on its own: a part that is
\* not running holds Idle.
VARIABLES
    lk,           \* worker(occ_key) followed request by request
    rl,           \* the requests of the pool's workers on a clock
    pb,           \* probe_streams
    wr,           \* m3u.write
    rn,           \* run_once
    ky,           \* the occurrence keys of two entries
    fx            \* a function of the program applied to drawn inputs

Idle == "idle"

enrich_vars == <<cfg, lists, run, pc, exc, items, occ, members, genres, gmaps, occ_index,
                 order, wk, doneQ, fetched_occ, calls, tasks, writes, io, occ0>>

\* what is outside enrich
outside == <<lk, rl, pb, wr, rn, ky, fx>>

vars == <<enrich_vars, outside>>

NoRow == [has |-> FALSE, movie |-> NoGenres, tv |-> NoGenres]

Init ==
    /\ \E y \in ApiKeySettings, par \in Parallelisms : cfg = load_config(y, par)
    /\ \E playlist \in SUBSET (1..Len(Pool)) :
          /\ Cardinality(playlist) <= MaxItems
          /\ \E ok \in SUBSET playlist :
                lists = <<Pick(ok, 1), Pick(playlist \ ok, 1)>>
    /\ run = 1
    /\ pc = "call"
    /\ exc = None
    /\ items = <<>>
    /\ occ = <<>>
    /\ members = {}
    /\ genres = NoRow
    /\ gmaps = [movie |-> NoGenres, tv |-> NoGenres]
    /\ occ_index = <<>>
    /\ order = <<>>
    /\ wk = <<>>
    /\ doneQ = <<>>
    /\ fetched_occ = <<>>
    /\ calls = {}
    /\ tasks = <<>>
    /\ writes = <<>>
    /\ io = [opened |-> FALSE, net |-> FALSE]
    /\ occ0 = <<>>
    /\ lk = Idle /\ rl = Idle /\ pb = Idle /\ wr = Idle /\ rn = Idle /\ ky = Idle /\ fx = Idle

\* ---------------------------------------------------------------- helpers of the actions
Inc(f, k) == IF k \in DOMAIN f THEN [f EXCEPT ![k] = @ + 1] ELSE f @@ (k :> 1)
Count(f, k) == IF k \in DOMAIN f THEN f[k] ELSE 0

Raise(e) == /\ pc' = "raised"
            /\ exc' = e

\* lines 395-409: the clusters of the list, in first-occurrence order
RECURSIVE KeyOrder(_, _, _)
KeyOrder(its, lang, acc) ==
    IF its = <<>> THEN acc
    ELSE LET k == KeyOf(Head(its), lang)
         IN  KeyOrder(Tail(its), lang, IF InSeq(k, acc) THEN acc ELSE Append(acc, k))

RECURSIVE IndicesOf(_, _, _, _)
IndicesOf(its, lang, k, from) ==
    IF from > Len(its) THEN <<>>
    ELSE LET n == normalize_series_and_episode(RawOf(its[from]))
         IN  (IF KeyOf(its[from], lang) = k
              THEN <<[idx |-> from, s |-> n.season, e |-> n.episode, ep_name |-> n.ep_name]>>
              ELSE <<>>) \o IndicesOf(its, lang, k, from + 1)

\* an index whose clusters each take in the whole list
BuildOccIndexWholeList(its, lang) ==
    LET ks == KeyOrder(its, lang, <<>>)
    IN  [k \in {ks[i] : i \in 1..Len(ks)} |->
            [prefix |-> k.pf, provider_base |-> k.base, series_key |-> k.sk,
             indices |-> [n \in 1..Len(its) |->
                            [idx |-> n,
                             s |-> normalize_series_and_episode(RawOf(its[n])).season,
                             e |-> normalize_series_and_episode(RawOf(its[n])).episode,
                             ep_name |-> normalize_series_and_episode(RawOf(its[n])).ep_name]],
             sample_q |-> normalize_series_and_episode(RawOf(its[1])).series_query]]

BuildOccIndex(its, lang) ==
    LET ks == KeyOrder(its, lang, <<>>)
    IN  [k \in {ks[i] : i \in 1..Len(ks)} |->
            LET ind == IndicesOf(its, lang, k, 1)
            IN  [prefix |-> k.pf, provider_base |-> k.base, series_key |-> k.sk,
                 indices |-> ind,
                 sample_q |-> normalize_series_and_episode(
                                  RawOf(its[ind[1].idx])).series_query]]

\* lines 420-426: the member rows of the list
MemberRows(index) ==
    UNION {{[key |-> k, url |-> items[m.idx].url,
             season  |-> IF m.s # NoNum /\ m.s # 0 THEN m.s ELSE NoNum,
             episode |-> IF m.e # NoNum /\ m.e # 0 THEN m.e ELSE NoNum,
             ep_name |-> m.ep_name, orig_title |-> RawOf(items[m.idx])]
            : m \in {index[k].indices[i] : i \in 1..Len(index[k].indices)}}
           : k \in DOMAIN index}

\* INSERT OR REPLACE on PRIMARY KEY (key, url)
UpsertMembers(table, rows) ==
    {r \in table : ~\E n \in rows : n.key = r.key /\ n.url = r.url} \cup rows

\* ---------------------------------------------------------------- enrich, main thread
db_unch == UNCHANGED <<occ, members, genres>>
pool_unch == UNCHANGED <<wk, doneQ, fetched_occ>>
hist_unch == UNCHANGED <<calls, tasks, writes, io, occ0>>

\* lines 380-387: the early returns
NoOp(its, c) == its = <<>> \/ StripKey(c.API_KEY) = ""

\* run_once lines 200-201 calling enrich, lines 380-387
EnrichCall ==
    /\ pc = "call"
    /\ items' = lists[run]
    /\ pc' = IF NoOp(lists[run], cfg) THEN "returned" ELSE "genres"
    /\ gmaps' = [movie |-> NoGenres, tv |-> NoGenres]
    /\ occ_index' = <<>>
    /\ order' = <<>>
    /\ wk' = <<>>
    /\ doneQ' = <<>>
    /\ fetched_occ' = <<>>
    /\ calls' = {}
    /\ writes' = <<>>
    /\ io' = [opened |-> FALSE, net |-> FALSE]
    /\ occ0' = occ
    /\ UNCHANGED <<outside, cfg, lists, run, exc, tasks>>
    /\ db_unch

\* one fetch(path) of _get_genres: the list it returns
GenreList(outcome, full) ==
    IF outcome = "ok" THEN full ELSE IF outcome = "items" THEN BadGenres ELSE NoGenres
\* lines 263-268 and 280: {g["id"]: g["name"] for g in ...} works on both lists
Parsable(row) == row.movie # BadGenres /\ row.tv # BadGenres
GenreRaises(outcome) == outcome \in {"exc", "nonjson", "array"}

\* lines 389-392: session, _open_cache, _get_genres
GetGenres ==
    /\ pc = "genres"
    /\ UNCHANGED <<outside, cfg, lists, run, items, occ, members, occ_index, order, calls, tasks,
                   writes, occ0>>
    /\ pool_unch
    /\ IF genres.has /\ Parsable(genres)
       THEN /\ gmaps' = [movie |-> genres.movie, tv |-> genres.tv]
            /\ io' = [io EXCEPT !.opened = TRUE]
            /\ pc' = "index"
            /\ UNCHANGED <<genres, exc>>
       ELSE \E m \in GenreOutcomes, t \in GenreOutcomes :
              LET fetched == [has |-> TRUE, movie |-> GenreList(m, MovieGenres),
                              tv |-> GenreList(t, TvGenres)]
              IN  IF GenreRaises(m) \/ GenreRaises(t)
                  THEN /\ Raise("genre list request")
                       /\ io' = [opened |-> TRUE, net |-> TRUE]
                       /\ UNCHANGED <<genres, gmaps>>
                  ELSE IF ~Parsable(fetched)
                  THEN \* the row is written (line 278), line 280 raises KeyError
                       /\ genres' = fetched
                       /\ Raise("genre list item")
                       /\ io' = [opened |-> TRUE, net |-> TRUE]
                       /\ UNCHANGED gmaps
                  ELSE /\ genres' = fetched
                       /\ gmaps' = [movie |-> fetched.movie, tv |-> fetched.tv]
                       /\ io' = [opened |-> TRUE, net |-> TRUE]
                       /\ pc' = "index"
                       /\ UNCHANGED exc

\* lines 394-409
BuildIndex ==
    /\ pc = "index"
    /\ occ_index' = BuildOccIndex(items, cfg.LANGUAGE)
    /\ order' = KeyOrder(items, cfg.LANGUAGE, <<>>)
    /\ writes' = [k \in DOMAIN occ_index' |-> 0]
    /\ pc' = "save"
    /\ UNCHANGED <<outside, cfg, lists, run, exc, items, gmaps, calls, tasks, io, occ0>>
    /\ db_unch
    /\ pool_unch

\* lines 411-427: one transaction; a database error leaves nothing written
SaveMembers ==
    /\ pc = "save"
    /\ UNCHANGED <<outside, cfg, lists, run, items, genres, gmaps, occ_index, order>>
    /\ pool_unch
    /\ hist_unch
    /\ \E db \in {"ok", "error"} :
          IF db = "error"
          THEN /\ Raise("sqlite3.Error saving members")
               /\ UNCHANGED <<occ, members>>
          ELSE /\ occ' = [k \in DOMAIN occ \cup DOMAIN occ_index |->
                            IF k \in DOMAIN occ THEN occ[k] ELSE Placeholder(k, run)]
               /\ members' = UpsertMembers(members, MemberRows(occ_index))
               /\ pc' = "load"
               /\ UNCHANGED exc

\* a run that trusts no cached row and looks every cluster up again
CachedNever(k) == FALSE

\* line 434
Cached(k) == k \in DOMAIN occ /\ Positive(occ[k])

\* line 441, in the dict's order
RECURSIVE ToFetch(_)
ToFetch(ks) ==
    IF ks = <<>> THEN <<>>
    ELSE (IF Cached(Head(ks)) THEN <<>> ELSE <<Head(ks)>>) \o ToFetch(Tail(ks))

Range(sq) == {sq[i] : i \in 1..Len(sq)}

\* lines 429-442 and 503-505: load the cached positives, submit the rest
LoadCached ==
    /\ pc = "load"
    /\ wk' = [k \in Range(ToFetch(order)) |->
                [st |-> "pending", row |-> NegativeRow(0)]]
    /\ doneQ' = <<>>
    /\ fetched_occ' = <<>>
    /\ pc' = IF ToFetch(order) = <<>> THEN "apply" ELSE "pool"
    /\ UNCHANGED <<outside, cfg, lists, run, exc, items, gmaps, occ_index, order>>
    /\ db_unch
    /\ hist_unch

\* ---------------------------------------------------------------- the worker pool
Running == {k \in DOMAIN wk : wk[k].st = "running"}
Finished(k) == wk[k].st \in {"done", "failed", "collected"}

\* the executor's work queue is FIFO: the next task a free thread takes
NextPending(k) ==
    \E i \in 1..Len(order) :
        /\ order[i] = k
        /\ k \in DOMAIN wk
        /\ wk[k].st = "pending"
        /\ \A j \in 1..(i - 1) : order[j] \in DOMAIN wk => wk[order[j]].st # "pending"

\* max(1, int(cfg["TMDB"]["PARALLELISM"]))
MaxWorkers == IF cfg.PARALLELISM < 1 THEN 1 ELSE cfg.PARALLELISM

PlanOf(k) == Plan(k, occ_index[k].sample_q)

\* a pool thread takes the task worker(k)
WorkerStart(k) ==
    /\ pc \in {"pool", "unwind"}
    /\ NextPending(k)
    /\ Cardinality(Running) < MaxWorkers
    /\ wk' = [wk EXCEPT ![k].st = "running"]
    /\ tasks' = Inc(tasks, k)
    /\ UNCHANGED <<outside, cfg, lists, run, pc, exc, items, gmaps, occ_index, order, doneQ,
                   fetched_occ, calls, writes, io, occ0>>
    /\ db_unch

\* what worker(k) comes to when the n-th request of its plan is the first
\* that does not answer with an error (lines 445-456, 468-501): res is that
\* answer, d what the detail request (if one is sent) comes to
WorkerResultOn(k, sample_q, res, d, tvmap, moviemap) ==
    LET genre0 == GenreFromMaps(res, tvmap, moviemap)
        asked  == genre0 = None /\ res.tmdb_id # NoNum /\ res.tmdb_id # 0
                      /\ res.media_type \in {"movie", "tv"}
        genre  == IF genre0 # None THEN genre0
                  ELSE fetch_detail_genre(res.media_type, res.tmdb_id, d)
    IN  IF res.kind = "raise" THEN [st |-> "failed", row |-> NegativeRow(0)]
        ELSE IF res.kind = "error" THEN [st |-> "done", row |-> NegativeRow(0)]
        ELSE IF asked /\ d = "raise" THEN [st |-> "failed", row |-> NegativeRow(0)]
        ELSE [st |-> "done", row |-> WorkerRow(k, sample_q, res, genre, 0)]

WorkerResult(k, n, res, d) ==
    WorkerResultOn(k, occ_index[k].sample_q, res, d, gmaps.tv, gmaps.movie)

\* every way worker(k) can end: its requests 1..n-1 answer with an error
\* dict, request n with reply (an error only when the plan is exhausted)
WorkerOutcomes(k) ==
    LET plan == PlanOf(k)
    IN  {WorkerResult(k, c[1], Search(plan[c[1]].ep, c[2]), c[3]) :
            c \in {x \in (1..Len(plan)) \X Replies \X DetailOutcomes :
                      Search(plan[x[1]].ep, x[2]).kind = "error" => x[1] = Len(plan)}}

\* worker(k) runs to its end and returns or raises
WorkerFinish(k) ==
    /\ pc \in {"pool", "unwind"}
    /\ k \in DOMAIN wk
    /\ wk[k].st = "running"
    /\ \E o \in WorkerOutcomes(k) : wk' = [wk EXCEPT ![k] = o]
    /\ doneQ' = Append(doneQ, k)
    /\ calls' = calls \cup {k}
    /\ io' = [io EXCEPT !.net = TRUE]
    /\ UNCHANGED <<outside, cfg, lists, run, pc, exc, items, gmaps, occ_index, order, fetched_occ,
                   tasks, writes, occ0>>
    /\ db_unch

\* lines 506-508: as_completed yields the next finished future
Collect ==
    /\ pc = "pool"
    /\ doneQ # <<>>
    /\ LET k == Head(doneQ)
       IN  IF wk[k].st = "failed"
           THEN /\ pc' = "unwind"
                /\ exc' = "worker raised"
                /\ UNCHANGED <<wk, fetched_occ>>
           ELSE /\ fetched_occ' = fetched_occ @@ (k :> wk[k].row)
                /\ wk' = [wk EXCEPT ![k].st = "collected"]
                /\ pc' = IF \A j \in DOMAIN wk : j = k \/ wk[j].st = "collected"
                         THEN "persist" ELSE "pool"
                /\ UNCHANGED exc
    /\ doneQ' = Tail(doneQ)
    /\ UNCHANGED <<outside, cfg, lists, run, items, gmaps, occ_index, order>>
    /\ db_unch
    /\ hist_unch

\* Ctrl+C reaches the main thread while it waits in as_completed
Interrupt ==
    /\ pc = "pool"
    /\ pc' = "unwind"
    /\ exc' = "KeyboardInterrupt"
    /\ UNCHANGED <<outside, cfg, lists, run, items, gmaps, occ_index, order>>
    /\ db_unch
    /\ pool_unch
    /\ hist_unch

\* line 504: leaving the with block joins the pool, then the exception
\* goes on out of enrich
Unwound ==
    /\ pc = "unwind"
    /\ \A k \in DOMAIN wk : Finished(k)
    /\ pc' = "raised"
    /\ UNCHANGED <<outside, cfg, lists, run, exc, items, gmaps, occ_index, order>>
    /\ db_unch
    /\ pool_unch
    /\ hist_unch

\* lines 510-519: persist all (including negatives)
Persist ==
    /\ pc = "persist"
    /\ UNCHANGED <<outside, cfg, lists, run, items, members, genres, gmaps, occ_index, order,
                   calls, tasks, io, occ0>>
    /\ pool_unch
    /\ \E db \in {"ok", "error"} :
          IF db = "error"
          THEN /\ Raise("sqlite3.Error persisting lookups")
               /\ UNCHANGED <<occ, writes>>
          ELSE /\ occ' = [k \in DOMAIN occ \cup DOMAIN fetched_occ |->
                            IF k \in DOMAIN fetched_occ
                            THEN [fetched_occ[k] EXCEPT !.created_at = run]
                            ELSE occ[k]]
               /\ writes' = [k \in DOMAIN writes |->
                               IF k \in DOMAIN fetched_occ THEN writes[k] + 1 ELSE writes[k]]
               /\ pc' = "apply"
               /\ UNCHANGED exc

\* lines 521-531
Usable(k) == k \in DOMAIN occ /\ Positive(occ[k])

\* lines 533-572
ApplyAll(its, index, table) ==
    [n \in 1..Len(its) |->
        LET k == CHOOSE c \in DOMAIN index :
                    \E i \in 1..Len(index[c].indices) : index[c].indices[i].idx = n
            m == index[k].indices[CHOOSE i \in 1..Len(index[k].indices) :
                                      index[k].indices[i].idx = n]
            hit == k \in DOMAIN table /\ Positive(table[k])
        IN  ApplyItem(its[n], index[k].prefix, m.s, m.e, m.ep_name, hit,
                      IF hit THEN table[k] ELSE NegativeRow(0))]

Apply ==
    /\ pc = "apply"
    /\ items' = ApplyAll(items, occ_index, occ)
    /\ pc' = "returned"
    /\ UNCHANGED <<outside, cfg, lists, run, exc, gmaps, occ_index, order>>
    /\ db_unch
    /\ pool_unch
    /\ hist_unch

\* run_once line 201: the second call, on the FAIL list
NextCall ==
    /\ pc = "returned"
    /\ run < NumRuns
    /\ run' = run + 1
    /\ pc' = "call"
    /\ UNCHANGED <<outside, cfg, lists, exc, items, gmaps, occ_index, order>>
    /\ db_unch
    /\ pool_unch
    /\ hist_unch

Next ==
    \/ EnrichCall
    \/ GetGenres
    \/ BuildIndex
    \/ SaveMembers
    \/ LoadCached
    \/ \E k \in DOMAIN wk : WorkerStart(k)
    \/ \E k \in DOMAIN wk : WorkerFinish(k)
    \/ Collect
    \/ Interrupt
    \/ Unwound
    \/ Persist
    \/ Apply
    \/ NextCall

Spec == Init /\ [][Next]_vars

\* ================================================================ worker(occ_key), request by request
\* enrich is not running
EnrichIdle ==
    /\ cfg = load_config(Unset, DefaultParallelism)
    /\ lists = <<<<>>, <<>>>>
    /\ run = 1
    /\ pc = Idle
    /\ exc = None
    /\ items = <<>>
    /\ occ = <<>>
    /\ members = {}
    /\ genres = NoRow
    /\ gmaps = [movie |-> NoGenres, tv |-> NoGenres]
    /\ occ_index = <<>>
    /\ order = <<>>
    /\ wk = <<>>
    /\ doneQ = <<>>
    /\ fetched_occ = <<>>
    /\ calls = {}
    /\ tasks = <<>>
    /\ writes = <<>>
    /\ io = [opened |-> FALSE, net |-> FALSE]
    /\ occ0 = <<>>

\* line 468: the query of _try_tmdb(first_q), then of _try_tmdb(sk_pretty)
PassQuery(k, sample_q, pass) == IF pass = 1 THEN first_q(k, sample_q) ELSE sk_pretty(k)

\* line 447
Cands(k, sample_q, pass) == simplify_candidates(PassQuery(k, sample_q, pass))

NoPos == [pass |-> 0, ep |-> None, i |-> 0]

\* the first request of a pass and of the passes after it: the loops of
\* lines 448 and 452 send nothing for an empty candidate list
RECURSIVE FirstPos(_, _, _)
FirstPos(k, sample_q, pass) ==
    IF pass > 2 THEN NoPos
    ELSE IF Cands(k, sample_q, pass) = <<>> THEN FirstPos(k, sample_q, pass + 1)
    ELSE [pass |-> pass, ep |-> "tv", i |-> 1]

\* lines 448-456 and the 'or' of line 468: the request after an error answer
NextPos(k, sample_q, pos) ==
    IF pos.i < Len(Cands(k, sample_q, pos.pass)) THEN [pos EXCEPT !.i = @ + 1]
    ELSE IF pos.ep = "tv" THEN [pos EXCEPT !.ep = "multi", !.i = 1]
    ELSE FirstPos(k, sample_q, pos.pass + 1)

LookupOf(e) ==
    LET k  == KeyOf(e, DefaultLanguage)
        sq == normalize_series_and_episode(RawOf(e)).series_query
    IN  [k |-> k, sample_q |-> sq, pos |-> FirstPos(k, sq, 1), sent |-> <<>>,
         last |-> ErrRes(""), st |-> "run"]

InitLookup ==
    /\ EnrichIdle
    /\ \E n \in 1..Len(Pool) : lk = LookupOf(Pool[n])
    /\ rl = Idle /\ pb = Idle /\ wr = Idle /\ rn = Idle /\ ky = Idle /\ fx = Idle

\* one _search_tv or _search_multi call of _try_tmdb and what follows its
\* answer: a match ends the lookup, an error dict goes on to the next
\* request, an exception leaves the worker
LookupSend ==
    /\ lk.st = "run"
    /\ lk.pos # NoPos
    /\ \E r \in Replies :
          LET q   == Cands(lk.k, lk.sample_q, lk.pos.pass)[lk.pos.i]
              res == Search(lk.pos.ep, r)
          IN  lk' = [lk EXCEPT
                        !.sent = Append(@, [ep |-> lk.pos.ep, q |-> q]),
                        !.last = res,
                        !.st   = IF res.kind = "match" THEN "hit"
                                 ELSE IF res.kind = "raise" THEN "raised"
                                 ELSE "run",
                        !.pos  = IF res.kind = "error"
                                 THEN NextPos(lk.k, lk.sample_q, lk.pos) ELSE @]
    /\ UNCHANGED <<enrich_vars, rl, pb, wr, rn, ky, fx>>

\* lines 469-470: both passes came to nothing
LookupMiss ==
    /\ lk.st = "run"
    /\ lk.pos = NoPos
    /\ lk' = [lk EXCEPT !.st = "miss"]
    /\ UNCHANGED <<enrich_vars, rl, pb, wr, rn, ky, fx>>

NextLookup == LookupSend \/ LookupMiss

SpecLookup == InitLookup /\ [][NextLookup]_vars

\* ================================================================ the requests of the pool on a clock
\* config.py: DEFAULTS["TMDB"]["RATE_LIMIT_RPS"], or max(1, --tmdb-rps)
DefaultRps == 50
RpsSettings == {1, DefaultRps}

\* the clock counts ticks of 1/TicksPerSecond seconds
TicksPerSecond == 100
\* the clock is followed for MaxClock ticks
MaxClock == 3
\* lookups submitted to the pool, and the most requests one of them sends
MaxLookups == 2
MaxRequests == 2

Lookups == 1..MaxLookups

InitRate ==
    /\ EnrichIdle
    /\ \E r \in RpsSettings, par \in Parallelisms, n \in [Lookups -> 1..MaxRequests] :
          rl = [rps |-> r, par |-> par, clock |-> 0, sends |-> <<>>,
                left |-> n, st |-> [w \in Lookups |-> "pending"]]
    /\ lk = Idle /\ pb = Idle /\ wr = Idle /\ rn = Idle /\ ky = Idle /\ fx = Idle

RateActive == {w \in Lookups : rl.st[w] \in {"ready", "waiting"}}

\* lines 503-505: a thread of the pool takes the next submitted lookup
RateStart(w) ==
    /\ rl.st[w] = "pending"
    /\ \A v \in Lookups : v < w => rl.st[v] # "pending"
    /\ Cardinality(RateActive) < (IF rl.par < 1 THEN 1 ELSE rl.par)
    /\ rl' = [rl EXCEPT !.st[w] = "ready"]
    /\ UNCHANGED <<enrich_vars, lk, pb, wr, rn, ky, fx>>

\* lines 292 and 322: session.get is called as soon as the worker reaches
\* it; RATE_LIMIT_RPS is read nowhere and there is no wait before the call
RateSend(w) ==
    /\ rl.st[w] = "ready"
    /\ rl' = [rl EXCEPT !.sends = Append(@, rl.clock), !.st[w] = "waiting"]
    /\ UNCHANGED <<enrich_vars, lk, pb, wr, rn, ky, fx>>

\* the answer arrives; the lookup goes on to its next request or ends
RateAnswer(w) ==
    /\ rl.st[w] = "waiting"
    /\ rl' = [rl EXCEPT !.left[w] = @ - 1,
                        !.st[w] = IF rl.left[w] > 1 THEN "ready" ELSE "done"]
    /\ UNCHANGED <<enrich_vars, lk, pb, wr, rn, ky, fx>>

RateTick ==
    /\ rl.clock < MaxClock
    /\ \E w \in Lookups : rl.st[w] # "done"
    /\ rl' = [rl EXCEPT !.clock = @ + 1]
    /\ UNCHANGED <<enrich_vars, lk, pb, wr, rn, ky, fx>>

NextRate ==
    \/ \E w \in Lookups : RateStart(w)
    \/ \E w \in Lookups : RateSend(w)
    \/ \E w \in Lookups : RateAnswer(w)
    \/ RateTick

SpecRate == InitRate /\ [][NextRate]_vars

\* ================================================================ probe.py
\* probe.py line 26: int(cfg["PROBE"].get("TIMEOUT", 10)); NoNum is a
\* config.yaml that does not set PROBE.TIMEOUT
DefaultProbeTimeout == 10
\* the longest timeout, in seconds, that a config.yaml sets here
LongestTimeout == 600
\* a PROBE.TIMEOUT that int() rejects (TIMEOUT: fast, or left empty)
BadTimeout == NoNum - 1
TimeoutSettings == {NoNum, LongestTimeout, BadTimeout}
\* config.py DEFAULTS["PROBE"]["PARALLELISM"], or max(1, --probe-workers)
DefaultProbeWorkers == 48
ProbeWorkerSettings == {1, DefaultProbeWorkers}

\* line 43: the timeout handed to subprocess.run
ProbeTimeout(configured) == IF configured = NoNum THEN DefaultProbeTimeout ELSE configured

\* What running ffprobe on a url comes to: it exits (code, the codec names
\* it printed to stdout, its stderr), it outlives the timeout, or it cannot
\* be run at all.
Exited(code, codec, err) == [how |-> "exit", code |-> code, codec |-> codec, stderr |-> err]
TimedOut == [how |-> "timeout", code |-> NoNum, codec |-> "", stderr |-> ""]
NotRun == [how |-> "oserror", code |-> NoNum, codec |-> "",
           stderr |-> "[Errno 2] No such file or directory: 'ffprobe'"]
ProcOutcomes ==
    { Exited(0, "h264", ""), Exited(0, "", ""),
      Exited(1, "", "Server returned 404 Not Found"), Exited(1, "", ""),
      TimedOut, NotRun }

\* the entries probe_streams is given: the playlist's first MaxProbeItems
\* at most, as parse left them or with the last_ok of an earlier probe
MaxProbeItems == 2
ProbeItem(n, last_ok) ==
    [url |-> Pool[n].url, status |-> None, last_ok |-> last_ok,
     last_checked |-> None, probe_error |-> None]

\* _probe_one without the fallback text of line 62
probe_one_bare_stderr(item, proc) ==
    IF proc.how = "exit" /\ proc.code = 0
    THEN [item EXCEPT !.status = "OK", !.last_ok = "now", !.last_checked = "now",
                      !.probe_error = ""]
    ELSE IF proc.how = "timeout"
    THEN [item EXCEPT !.status = "FAIL", !.last_checked = "now",
                      !.probe_error = "Timeout"]
    ELSE [item EXCEPT !.status = "FAIL", !.last_checked = "now",
                      !.probe_error = proc.stderr]

\* lines 29-68: _probe_one.  stdout goes to DEVNULL: the codec name is not read
probe_one(item, proc) ==
    IF proc.how = "exit" /\ proc.code = 0
    THEN [item EXCEPT !.status = "OK", !.last_ok = "now", !.last_checked = "now",
                      !.probe_error = ""]
    ELSE IF proc.how = "timeout"
    THEN [item EXCEPT !.status = "FAIL", !.last_checked = "now",
                      !.probe_error = "Timeout"]
    ELSE IF proc.how = "exit"
    THEN [item EXCEPT !.status = "FAIL", !.last_checked = "now",
                      !.probe_error = IF proc.stderr # "" THEN proc.stderr
                                      ELSE "ffprobe error"]
    ELSE [item EXCEPT !.status = "FAIL", !.last_checked = "now",
                      !.probe_error = proc.stderr]

InitProbe ==
    /\ EnrichIdle
    /\ \E n \in 0..MaxProbeItems, t \in TimeoutSettings, par \in ProbeWorkerSettings :
       \E early \in SUBSET (1..n) :
          pb = [TIMEOUT |-> t, PARALLELISM |-> par,
                items   |-> [i \in 1..n |->
                               ProbeItem(i, IF i \in early THEN "earlier" ELSE None)],
                pc      |-> "start",
                fut     |-> <<>>,      \* state of each submitted future
                proc    |-> <<>>,      \* what ffprobe came to, per entry
                timeout |-> <<>>,      \* the timeout its run was given
                doneQ   |-> <<>>,      \* finished futures as_completed has not yielded
                ok      |-> <<>>,
                fail    |-> <<>>,
                completed |-> 0,
                exc     |-> None,      \* the exception on its way out
                given   |-> [i \in 1..n |->
                               ProbeItem(i, IF i \in early THEN "earlier" ELSE None)],
                intr    |-> FALSE,     \* history: Ctrl+C was received
                kept    |-> <<>>,      \* history: ok and fail at that moment
                late    |-> {}]        \* history: tasks started after it
    /\ lk = Idle /\ rl = Idle /\ wr = Idle /\ rn = Idle /\ ky = Idle /\ fx = Idle

probe_frame == UNCHANGED <<enrich_vars, lk, rl, wr, rn, ky, fx>>

\* lines 72-74 and 89-90: nothing to do, or submit one task per entry
ProbeSubmit ==
    /\ pb.pc = "start"
    /\ pb' = IF Len(pb.items) = 0
             THEN [pb EXCEPT !.pc = "returned"]
             ELSE [pb EXCEPT !.pc = "loop",
                             !.fut = [i \in 1..Len(pb.items) |-> "pending"],
                             !.proc = [i \in 1..Len(pb.items) |-> TimedOut],
                             !.timeout = [i \in 1..Len(pb.items) |-> NoNum]]
    /\ probe_frame

ProbeRunning == {i \in DOMAIN pb.fut : pb.fut[i] = "running"}

\* line 76
ProbeWorkers == IF pb.PARALLELISM < 1 THEN 1 ELSE pb.PARALLELISM

\* a pool thread takes the next task of the queue; lines 23-27
ProbeStart(i) ==
    /\ pb.pc \in {"loop", "unwind"}
    /\ i \in DOMAIN pb.fut
    /\ pb.fut[i] = "pending"
    /\ \A j \in 1..(i - 1) : pb.fut[j] # "pending"
    /\ Cardinality(ProbeRunning) < ProbeWorkers
    /\ pb' = [pb EXCEPT !.fut[i] = "running",
                        !.timeout[i] = IF pb.TIMEOUT = BadTimeout THEN NoNum
                                       ELSE ProbeTimeout(pb.TIMEOUT),
                        !.late = IF pb.intr THEN @ \cup {i} ELSE @]
    /\ probe_frame

\* lines 29-68: the run of ffprobe ends and _probe_one returns the entry
ProbeFinish(i) ==
    /\ pb.pc \in {"loop", "unwind"}
    /\ i \in DOMAIN pb.fut
    /\ pb.fut[i] = "running"
    /\ IF pb.TIMEOUT = BadTimeout
       THEN \* line 26 raises before the try: the future holds an exception
            pb' = [pb EXCEPT !.fut[i] = "failed", !.doneQ = Append(@, i)]
       ELSE \E proc \in ProcOutcomes :
              pb' = [pb EXCEPT !.fut[i] = "done",
                               !.proc[i] = proc,
                               !.items[i] = probe_one(@, proc),
                               !.doneQ = Append(@, i)]
    /\ probe_frame

\* the main thread handles results while it is in the as_completed loop
Collecting == pb.pc = "loop"

\* lines 91-112: as_completed yields a finished future; its entry is put
\* on ok or fail; after the last one the with block ends and line 118 returns
ProbeCollect ==
    /\ Collecting
    /\ pb.doneQ # <<>>
    /\ LET i == Head(pb.doneQ)
           isok == pb.items[i].status = "OK"
           none == pb.fut[i] = "failed"      \* lines 98-100: item = None
       IN  pb' = [pb EXCEPT !.doneQ = Tail(@),
                            !.ok = IF isok /\ ~none THEN Append(@, i) ELSE @,
                            !.fail = IF isok \/ none THEN @ ELSE Append(@, i),
                            !.completed = @ + 1,
                            !.pc = IF pb.completed + 1 = Len(pb.items)
                                   THEN "returned" ELSE "loop"]
    /\ probe_frame

\* Ctrl+C while the main thread waits inside as_completed (line 91, outside
\* the inner try): KeyboardInterrupt leaves the loop through the with
\* block, whose __exit__ is shutdown(wait=True) without cancel_futures
ProbeInterruptWaiting ==
    /\ pb.pc = "loop"
    /\ ~pb.intr
    /\ pb' = [pb EXCEPT !.pc = "unwind", !.intr = TRUE,
                        !.exc = "KeyboardInterrupt",
                        !.kept = <<pb.ok, pb.fail>>]
    /\ probe_frame

\* Ctrl+C while the main thread is in fut.result() (lines 92-97):
\* shutdown(wait=False, cancel_futures=True), then break
ProbeInterruptAtResult ==
    /\ pb.pc = "loop"
    /\ ~pb.intr
    /\ pb.doneQ # <<>>
    /\ pb' = [pb EXCEPT !.pc = "unwind", !.intr = TRUE,
                        !.kept = <<pb.ok, pb.fail>>,
                        !.doneQ = Tail(@),
                        !.fut = [i \in DOMAIN pb.fut |->
                                    IF pb.fut[i] = "pending" THEN "cancelled"
                                    ELSE pb.fut[i]]]
    /\ probe_frame

\* an exception that goes on out of probe_streams
ProbeLetsThrough(e) == FALSE

\* line 114: except KeyboardInterrupt
ProbeCatches(e) == e = "KeyboardInterrupt"

\* __exit__ has joined the pool's threads; lines 114-118
ProbeUnwound ==
    /\ pb.pc = "unwind"
    /\ \A i \in DOMAIN pb.fut : pb.fut[i] \in {"done", "failed", "cancelled"}
    /\ pb' = IF pb.exc = None \/ ProbeCatches(pb.exc)
             THEN [pb EXCEPT !.pc = "returned", !.exc = None]
             ELSE [pb EXCEPT !.pc = "raised"]
    /\ probe_frame

NextProbe ==
    \/ ProbeSubmit
    \/ \E i \in 1..MaxProbeItems : ProbeStart(i)
    \/ \E i \in 1..MaxProbeItems : ProbeFinish(i)
    \/ ProbeCollect
    \/ ProbeInterruptWaiting
    \/ ProbeInterruptAtResult
    \/ ProbeUnwound

SpecProbe == InitProbe /\ [][NextProbe]_vars

\* ================================================================ m3u.py, write
\* The playlist is probed by a pool and written sorted.  The list write() is
\* handed is the list probe_streams collected, in the order the futures
\* completed.  Two runs over the same playlist are kept side by side.

MaxWriteItems == 2

WriteGroups == {"", "Drama"}
WritePrefixes == {"", "EN"}
WriteHeads == {"Alpha", "alpha", "Beta"}
WriteEpisodes == {<<NoNum, NoNum>>, <<1, 2>>}
WriteUrls == {"http://h1/a", "http://h2/a"}

\* an enriched entry as write() reads it
WriteEntries ==
    {[group |-> g, pf |-> p, head |-> h, season |-> se[1], episode |-> se[2], url |-> u] :
        g \in WriteGroups, p \in WritePrefixes, h \in WriteHeads,
        se \in WriteEpisodes, u \in WriteUrls}

\* str.lower() of the words in use
LowerWord == [w \in WriteHeads \cup WriteGroups \cup {"~"} |->
                CASE w = "Alpha" -> "alpha"
                  [] w = "Beta"  -> "beta"
                  [] w = "Drama" -> "drama"
                  [] OTHER       -> w]

\* Python's order of str, by code point, on the strings the key is made of
StrOrder == <<"", "Alpha", "Beta", "EN - Alpha", "EN - Beta", "EN - alpha", "EN - beta",
              "alpha", "beta", "drama", "~">>
StrRank(s) == CHOOSE i \in 1..Len(StrOrder) : StrOrder[i] = s

\* the start of the display title: "EN - Alpha" or "Alpha"; " S01 E02" follows
\* when the entry has a season
DisplayLead(it) ==
    CASE it.pf = "" -> it.head
      [] it.pf = "EN" /\ it.head = "Alpha" -> "EN - Alpha"
      [] it.pf = "EN" /\ it.head = "alpha" -> "EN - alpha"
      [] it.pf = "EN" /\ it.head = "Beta"  -> "EN - Beta"
      [] OTHER -> "EN - beta"

\* _strip_series_prefix, the split at " Sxx Eyy", the split at " - ", lower()
series_base_key(it) == LowerWord[it.head]

NumOr0(n) == IF n = NoNum THEN 0 ELSE n

\* _sort_key: the display title is compared as its lead, then the zero padded
\* season and episode it ends with
sort_key(it) ==
    << StrRank(LowerWord[IF it.group = "" THEN "~" ELSE it.group]),
       StrRank(series_base_key(it)),
       NumOr0(it.season),
       NumOr0(it.episode),
       StrRank(DisplayLead(it)), NumOr0(it.season), NumOr0(it.episode) >>

RECURSIVE TupleLess(_, _, _)
TupleLess(a, b, i) ==
    IF i > Len(a) THEN FALSE
    ELSE IF a[i] # b[i] THEN a[i] < b[i]
    ELSE TupleLess(a, b, i + 1)

\* sorted(items, key=_sort_key): stable, equal keys keep the order they came in
RECURSIVE sorted(_)
InsertSorted(done, it) ==
    LET after == {i \in 1..Len(done) : TupleLess(sort_key(it), sort_key(done[i]), 1)}
        at    == IF after = {} THEN Len(done) + 1
                 ELSE CHOOSE i \in after : \A j \in after : i <= j
    IN  SubSeq(done, 1, at - 1) \o <<it>> \o SubSeq(done, at, Len(done))
sorted(its) ==
    IF its = <<>> THEN <<>>
    ELSE InsertSorted(sorted(SubSeq(its, 1, Len(its) - 1)), its[Len(its)])

\* the lines of the file that tell entries apart: name, group, url in order
write(its) == [i \in 1..Len(its) |->
                 [name |-> <<DisplayLead(sorted(its)[i]), sorted(its)[i].season,
                             sorted(its)[i].episode>>,
                  group |-> sorted(its)[i].group,
                  url |-> sorted(its)[i].url]]

InitWrite ==
    /\ EnrichIdle
    /\ \E n \in 0..MaxWriteItems :
       \E its \in [1..n -> WriteEntries] :
          /\ \A i, j \in 1..n : i # j => its[i] # its[j]
          /\ wr = [items |-> its,          \* the playlist, in file order
                   round |-> 1,            \* which of the two runs
                   ok    |-> <<>>,         \* probe_streams' list so far
                   got   |-> {},           \* futures already yielded
                   out   |-> <<>>,         \* the file of each finished run
                   pc    |-> "probe"]
    /\ lk = Idle /\ rl = Idle /\ pb = Idle /\ rn = Idle /\ ky = Idle /\ fx = Idle

write_frame == UNCHANGED <<enrich_vars, lk, rl, pb, rn, ky, fx>>

\* as_completed yields some finished future; its entry is appended
WriteCollect(i) ==
    /\ wr.pc = "probe"
    /\ i \in 1..Len(wr.items) /\ i \notin wr.got
    /\ wr' = [wr EXCEPT !.ok = Append(@, wr.items[i]), !.got = @ \cup {i}]
    /\ write_frame

\* every future was yielded: write_m3u(out_ok, ok_items)
WriteFile ==
    /\ wr.pc = "probe"
    /\ wr.got = 1..Len(wr.items)
    /\ wr' = [wr EXCEPT !.out = Append(@, write(wr.ok)),
                        !.ok = <<>>, !.got = {},
                        !.round = IF wr.round = 1 THEN 2 ELSE @,
                        !.pc = IF wr.round = 1 THEN "probe" ELSE "written"]
    /\ write_frame

NextWrite ==
    \/ \E i \in 1..MaxWriteItems : WriteCollect(i)
    \/ WriteFile

SpecWrite == InitWrite /\ [][NextWrite]_vars

\* ================================================================ pipeline.py, run_once
\* One run from the playlist source to the spreadsheets, step by step at the
\* points where the run touches the network, the pool or the disk.

MaxRunItems == 1
NumUserAgents == 4                 \* uas of _download_text

RunSources == {"url", "file", "missing"}
HttpOk == 200
DownloadStatuses == {HttpOk, 403, 503}
ConnectionError == "ConnectionError"
\* what sess.get comes to: a response with a status, or an exception
Answered(status) == [status |-> status, exc |-> None]
Threw(e) == [status |-> NoNum, exc |-> e]
DownloadReplies == {Answered(n) : n \in DownloadStatuses} \cup {Threw(ConnectionError)}

Raised(type, text, status, cause) ==
    [type |-> type, text |-> text, status |-> status, cause |-> cause]
NoExc == Raised(None, "", NoNum, None)

\* lines 64-66: every user agent was tried and none got a 200
download_end_empty(last_status, last_exc) == [kind |-> "return", exc |-> NoExc]
download_end(last_status, last_exc) ==
    IF last_exc # None
    THEN [kind |-> "raise",
          exc  |-> Raised("OSError", "Download failed: ", NoNum, last_exc)]
    ELSE [kind |-> "raise",
          exc  |-> Raised("OSError", "Download failed (last status ", last_status, None)]

InitRun ==
    /\ EnrichIdle
    /\ \E src \in RunSources, enabled \in BOOLEAN, imported \in BOOLEAN, n \in 0..MaxRunItems :
          rn = [src      |-> src,        \* what SOURCE_M3U points at
                PROBE_ENABLED |-> enabled, \* PROBE.ENABLED
                imported |-> imported,   \* probe_streams is not None
                n        |-> n,          \* entries of the playlist that pass the filter
                pc       |-> "load",
                log      |-> <<>>,       \* the reply to each GET so far
                last_status |-> NoNum,
                last_exc |-> None,
                ok_n     |-> 0,
                fail_n   |-> 0,
                calls    |-> <<>>,       \* stages entered
                written  |-> {},         \* output files written
                exc      |-> NoExc]      \* exception that left run_once
    /\ lk = Idle /\ rl = Idle /\ pb = Idle /\ wr = Idle /\ ky = Idle /\ fx = Idle

run_frame == UNCHANGED <<enrich_vars, lk, rl, pb, wr, ky, fx>>

\* lines 168-169 and _load_m3u_text
RunLoad ==
    /\ rn.pc = "load"
    /\ rn' = CASE rn.src = "url"  -> [rn EXCEPT !.pc = "download"]
               [] rn.src = "file" -> [rn EXCEPT !.pc = "parse"]
               [] OTHER -> [rn EXCEPT !.pc = "raised",
                                      !.exc = Raised("FileNotFoundError", "M3U file not found",
                                                     NoNum, None)]
    /\ run_frame

\* one turn of the loop over uas, lines 52-63; after the last turn lines 64-66
RunDownloadAttempt(reply) ==
    /\ rn.pc = "download"
    /\ Len(rn.log) < NumUserAgents
    /\ LET log    == Append(rn.log, reply)
           status == IF reply.exc = None /\ reply.status # HttpOk
                     THEN reply.status ELSE rn.last_status
           ex     == IF reply.exc # None THEN reply.exc ELSE rn.last_exc
           r1     == [rn EXCEPT !.log = log, !.last_status = status, !.last_exc = ex]
           end    == download_end(status, ex)
       IN  rn' = IF reply = Answered(HttpOk) THEN [r1 EXCEPT !.pc = "parse"]
                 ELSE IF Len(log) < NumUserAgents THEN r1
                 ELSE IF end.kind = "raise"
                      THEN [r1 EXCEPT !.pc = "raised", !.exc = end.exc]
                      ELSE [r1 EXCEPT !.pc = "parse"]
    /\ run_frame

\* lines 172-177
RunParseFilter ==
    /\ rn.pc = "parse"
    /\ rn' = [rn EXCEPT !.pc = "probe", !.calls = @ \o <<"parse_m3u", "filter">>]
    /\ run_frame

\* lines 180-191
RunProbe ==
    /\ rn.pc = "probe"
    /\ \/ /\ rn.PROBE_ENABLED /\ ~rn.imported
          /\ rn' = [rn EXCEPT !.pc = "raised",
                              !.exc = Raised("RuntimeError",
                                             "Probe is enabled but could not be imported",
                                             NoNum, None)]
       \/ /\ rn.PROBE_ENABLED /\ rn.imported
          /\ \E k \in 0..rn.n :
                rn' = [rn EXCEPT !.pc = "enrich", !.calls = Append(@, "probe_streams"),
                                 !.ok_n = k, !.fail_n = rn.n - k]
       \/ /\ ~rn.PROBE_ENABLED
          /\ rn' = [rn EXCEPT !.pc = "enrich", !.ok_n = 0, !.fail_n = rn.n]
    /\ run_frame

\* lines 200-201
RunEnrich ==
    /\ rn.pc = "enrich"
    /\ rn' = [rn EXCEPT !.pc = "write", !.calls = @ \o <<"tmdb_enrich", "tmdb_enrich">>]
    /\ run_frame

\* lines 204-211
RunWrite ==
    /\ rn.pc = "write"
    /\ rn' = [rn EXCEPT !.pc = "excel", !.calls = @ \o <<"write_m3u", "write_m3u">>,
                        !.written = @ \cup {"ok.m3u", "fail.m3u"}]
    /\ run_frame

\* lines 215-224
RunExcel ==
    /\ rn.pc = "excel"
    /\ rn' = [rn EXCEPT !.pc = "done", !.calls = Append(@, "export_excel"),
                        !.written = @ \cup {"ok.xlsx", "fail.xlsx"}]
    /\ run_frame

\* lines 226-229: Ctrl+C anywhere inside the try
RunInterrupt ==
    /\ rn.pc \in {"load", "download", "parse", "probe", "enrich", "write", "excel"}
    /\ rn' = [rn EXCEPT !.pc = "interrupted"]
    /\ run_frame

NextRun ==
    \/ RunLoad
    \/ \E reply \in DownloadReplies : RunDownloadAttempt(reply)
    \/ RunParseFilter
    \/ RunProbe
    \/ RunEnrich
    \/ RunWrite
    \/ RunExcel
    \/ RunInterrupt

SpecRun == InitRun /\ [][NextRun]_vars

\* ================================================================ tmdb.py, the occurrence index
\* The loop of lines 396-409 over a playlist whose entries differ in title,
\* group code and URL, one entry per step.

MaxKeyItems == 2

KeyTitles ==
    { <<PFX("EN")>> \o BB("T") \o <<SE(1, 1), W("pilot", "T")>>,
      BB("U") \o <<SE(1, 2)>>,
      <<PFX("EN"), SE(1, 1)>> }
KeyUrls ==
    { [scheme |-> "http", netloc |-> h, segs |-> p] :
        h \in {"h1", "h2"}, p \in {<<"path", "a.ts">>, <<"other", "a.ts">>, <<"a.ts">>} }
KeyCodes == {"EN", "DE"}
KeyLanguages == {DefaultLanguage, "de-DE"}

KeyEntry(title, url, code) == [Entry(title, "a.ts", code) EXCEPT !.url = url]
KeyEntries == {KeyEntry(t, u, c) : t \in KeyTitles, u \in KeyUrls, c \in KeyCodes}

InitKey ==
    /\ EnrichIdle
    /\ \E n \in 0..MaxKeyItems, lang \in KeyLanguages :
       \E its \in [1..n -> KeyEntries] :
          ky = [items |-> its, lang |-> lang,
                idx   |-> 1,               \* the entry the loop is at
                occ_index |-> <<>>,        \* occ_key -> indices
                key_of |-> <<>>]           \* history: the key each entry got
    /\ lk = Idle /\ rl = Idle /\ pb = Idle /\ wr = Idle /\ rn = Idle /\ fx = Idle

key_frame == UNCHANGED <<enrich_vars, lk, rl, pb, wr, rn, fx>>

\* lines 397-409: key of the entry, setdefault, append
KeyIndexItem ==
    /\ ky.idx <= Len(ky.items)
    /\ LET k == KeyOf(ky.items[ky.idx], ky.lang)
       IN  ky' = [ky EXCEPT
                    !.idx = @ + 1,
                    !.key_of = Append(@, k),
                    !.occ_index = [o \in DOMAIN ky.occ_index \cup {k} |->
                                     IF o = k
                                     THEN (IF k \in DOMAIN ky.occ_index
                                           THEN ky.occ_index[k] ELSE <<>>) \o <<ky.idx>>
                                     ELSE ky.occ_index[o]]]
    /\ key_frame

NextKey == KeyIndexItem

SpecKey == InitKey /\ [][NextKey]_vars

\* ================================================================ enrich on the cache of an earlier run
\* The first enrich call of a pipeline whose cache database was left by
\* earlier pipelines, up to the point where the lookups are submitted.  The
\* list is in the order the probes completed.

MaxCachedRows == 1

\* a film as /search/multi lists it
ItemFilm == Item(9, "movie", <<>>, BB("T"), "", <<2>>)

WarmKeys == {KeyOf(Pool[i], DefaultLanguage) : i \in 1..Len(Pool)}

\* what lines 510-519 of an earlier run can have left under key k
StoredRows(k) ==
    { NegativeRow(0),
      WorkerRow(k, <<>>, search_tv(ObjectReply(<<ItemShow>>)), "Drama", 0),
      WorkerRow(k, <<>>, search_multi(ObjectReply(<<ItemFilm>>)), "Action", 0) }

\* what line 278 of an earlier run can have left for the language
StoredTaxonomies ==
    { NoRow,
      [has |-> TRUE, movie |-> MovieGenres, tv |-> TvGenres],
      [has |-> TRUE, movie |-> NoGenres, tv |-> NoGenres],
      [has |-> TRUE, movie |-> MovieGenres, tv |-> BadGenres] }

InitWarm ==
    /\ \E y \in ApiKeySettings : cfg = load_config(y, DefaultParallelism)
    /\ \E n \in 0..MaxItems :
       \E pick \in [1..n -> 1..Len(Pool)] :
          /\ \A i, j \in 1..n : i # j => pick[i] # pick[j]
          /\ lists = <<[i \in 1..n |-> Pool[pick[i]]], <<>>>>
    /\ \E ks \in SUBSET WarmKeys :
          /\ Cardinality(ks) <= MaxCachedRows
          /\ \E table \in [ks -> UNION {StoredRows(k) : k \in WarmKeys}] :
                /\ \A k \in ks : table[k] \in StoredRows(k)
                /\ occ = table
    /\ genres \in StoredTaxonomies
    /\ run = 1
    /\ pc = "call"
    /\ exc = None
    /\ items = <<>>
    /\ members = {}
    /\ gmaps = [movie |-> NoGenres, tv |-> NoGenres]
    /\ occ_index = <<>>
    /\ order = <<>>
    /\ wk = <<>>
    /\ doneQ = <<>>
    /\ fetched_occ = <<>>
    /\ calls = {}
    /\ tasks = <<>>
    /\ writes = <<>>
    /\ io = [opened |-> FALSE, net |-> FALSE]
    /\ occ0 = <<>>
    /\ lk = Idle /\ rl = Idle /\ pb = Idle /\ wr = Idle /\ rn = Idle /\ ky = Idle /\ fx = Idle

NextWarm ==
    \/ EnrichCall
    \/ GetGenres
    \/ BuildIndex
    \/ SaveMembers
    \/ LoadCached

SpecWarm == InitWarm /\ [][NextWarm]_vars

\* ================================================================ the prefix of a label and of an entry
\* detect_prefix on group labels written in several ways, and the prefix
\* enrich gives an entry that has such a label and a title.
\* A label is [code, sep, name]: the leading run of two to four letters as
\* written ("" when the label starts with a longer word), the separator
\* that follows it ("" when only a blank follows) and the rest.

LabelCodes == {"", "EN", "DE", "EXYU", "de"}
LabelSeps == {"", "-", "|"}
LabelNames == {"Series", "Drama"}
Labels == {[code |-> c, sep |-> p, name |-> n] :
              c \in LabelCodes, p \in LabelSeps, n \in LabelNames}
PrefixTitles ==
    { <<PFX("DE")>> \o BB("T") \o <<SE(1, 1)>>,
      <<PFX("EN")>> \o BB("T") \o <<SE(1, 1)>>,
      BB("T") \o <<SE(1, 1)>> }

InitPrefix ==
    /\ EnrichIdle
    /\ \E l \in Labels, t \in PrefixTitles :
          fx = [label |-> l, title |-> t,
                did      |-> {},          \* which of the two were computed
                detected |-> None,        \* detect_prefix(label)
                pf       |-> None]        \* pf of line 401
    /\ lk = Idle /\ rl = Idle /\ pb = Idle /\ wr = Idle /\ rn = Idle /\ ky = Idle

prefix_frame == UNCHANGED <<enrich_vars, lk, rl, pb, wr, rn, ky>>

\* detect_prefix(group_title)
PrefixDetect ==
    /\ "detect" \notin fx.did
    /\ fx' = [fx EXCEPT !.did = @ \cup {"detect"}, !.detected = detect_prefix(fx.label)]
    /\ prefix_frame

\* lines 397-403 for an entry with this label and title
PrefixOfEntry ==
    /\ "entry" \notin fx.did
    /\ LET it == [Entry(fx.title, "a.ts", "") EXCEPT !.group = fx.label]
       IN  fx' = [fx EXCEPT !.did = @ \cup {"entry"}, !.pf = KeyOf(it, DefaultLanguage).pf]
    /\ prefix_frame

NextPrefix == PrefixDetect \/ PrefixOfEntry

SpecPrefix == InitPrefix /\ [][NextPrefix]_vars

\* ================================================================ the title helpers on decorated titles
\* Two ways a provider writes the title of one show.

\* _series_key, lines 117-120
series_key(title) ==
    Lower(base_noise_strip(strip_all_se_tokens(strip_leading_prefix(title)).text))

FormPrefixes == {<<>>, <<PFX("EN")>>}
FormCases == {"T", "U"}
FormTags == {<<>>, <<TECH>>}
FormEpisodes == {<<>>, <<SE(1, 2)>>, <<HS(1), HE(2)>>, <<SE(1, 2), SE(3, 4)>>,
                 <<HS(1), SE(1, 2), HE(2)>>}
FormTails == {<<>>, <<W("pilot", "T")>>}
\* 'EN - Breaking Bad 1080p S01 E02 Pilot' and its variants
TitleForms ==
    {p \o BB(c) \o g \o e \o t :
        p \in FormPrefixes, c \in FormCases, g \in FormTags, e \in FormEpisodes,
        t \in FormTails}

InitTitle ==
    /\ EnrichIdle
    /\ \E a \in TitleForms, b \in TitleForms :
          fx = [a |-> a, b |-> b,
                did      |-> {},
                keys     |-> <<>>,       \* _series_key of a and of b
                stripped |-> [text |-> <<>>, s |-> NoNum, e |-> NoNum]]
    /\ lk = Idle /\ rl = Idle /\ pb = Idle /\ wr = Idle /\ rn = Idle /\ ky = Idle

title_frame == UNCHANGED <<enrich_vars, lk, rl, pb, wr, rn, ky>>

TitleSeriesKeys ==
    /\ "keys" \notin fx.did
    /\ fx' = [fx EXCEPT !.did = @ \cup {"keys"},
                        !.keys = <<series_key(fx.a), series_key(fx.b)>>]
    /\ title_frame

\* _strip_all_se_tokens(a)
TitleStrip ==
    /\ "strip" \notin fx.did
    /\ fx' = [fx EXCEPT !.did = @ \cup {"strip"}, !.stripped = strip_all_se_tokens(fx.a)]
    /\ title_frame

NextTitle == TitleSeriesKeys \/ TitleStrip

SpecTitle == InitTitle /\ [][NextTitle]_vars

\* ================================================================ the candidates of a query
MaxQueryLen == 5

QueryTokens == {W("breaking", "T"), W("bad", "T"), DASH, PAREN, WC("trek", "T")}
Queries == UNION {[1..n -> QueryTokens] : n \in 0..MaxQueryLen}

InitCandidates ==
    /\ EnrichIdle
    /\ \E q \in Queries : fx = [q |-> q, done |-> FALSE, cands |-> <<>>]
    /\ lk = Idle /\ rl = Idle /\ pb = Idle /\ wr = Idle /\ rn = Idle /\ ky = Idle

\* line 447: cands = _simplify_candidates(series_q)
CandidatesOf ==
    /\ ~fx.done
    /\ fx' = [fx EXCEPT !.done = TRUE, !.cands = simplify_candidates(fx.q)]
    /\ UNCHANGED <<enrich_vars, lk, rl, pb, wr, rn, ky>>

NextCandidates == CandidatesOf

SpecCandidates == InitCandidates /\ [][NextCandidates]_vars

\* ================================================================ from a match to the entry
\* One cluster of one entry: the worker turns the answer of the search into
\* a row (lines 468-501), the row is stored and read back (lines 510-531),
\* the entry is rewritten (lines 533-572).
Crime == (1 :> "Drama") @@ (3 :> "Crime")
OutcomeIds == {<<>>, <<1>>, <<2>>, <<3, 1>>, <<1, 3>>, <<9, 2>>}
OutcomeMatches ==
    {Match(7, mt, BB("T"), poster, gids) :
        mt \in {"tv", "movie", "person"}, poster \in {"", "/p.jpg"}, gids \in OutcomeIds}
    \cup {ErrRes("no results")}
OutcomeEntries ==
    {[Pool[n] EXCEPT !.logo = l] : n \in {1, 3}, l \in {<<>>, <<"http://logos", "/provider.png">>}}

InitOutcome ==
    /\ EnrichIdle
    /\ \E res \in OutcomeMatches, tv \in {NoGenres, TvGenres, Crime},
          movie \in {NoGenres, MovieGenres}, d \in DetailOutcomes, it \in OutcomeEntries :
            fx = [res |-> res, tv |-> tv, movie |-> movie, d |-> d, it |-> it,
                  stage |-> "worker", row |-> NegativeRow(0), out |-> it]
    /\ lk = Idle /\ rl = Idle /\ pb = Idle /\ wr = Idle /\ rn = Idle /\ ky = Idle

outcome_frame == UNCHANGED <<enrich_vars, lk, rl, pb, wr, rn, ky>>

\* worker(occ_key) on the answer res; an exception of the detail request
\* leaves worker through fut.result() (line 507) and ends enrich
OutcomeWorker ==
    /\ fx.stage = "worker"
    /\ LET k == KeyOf(fx.it, DefaultLanguage)
           index == BuildOccIndex(<<fx.it>>, DefaultLanguage)
           o == WorkerResultOn(k, index[k].sample_q, fx.res, fx.d, fx.tv, fx.movie)
       IN  fx' = [fx EXCEPT !.stage = IF o.st = "failed" THEN "raised" ELSE "stored",
                            !.row = o.row]
    /\ outcome_frame

\* lines 521-572 on the stored row
OutcomeApply ==
    /\ fx.stage = "stored"
    /\ LET k == KeyOf(fx.it, DefaultLanguage)
           index == BuildOccIndex(<<fx.it>>, DefaultLanguage)
       IN  fx' = [fx EXCEPT !.stage = "applied",
                            !.out = ApplyAll(<<fx.it>>, index, k :> fx.row)[1]]
    /\ outcome_frame

NextOutcome == OutcomeWorker \/ OutcomeApply

SpecOutcome == InitOutcome /\ [][NextOutcome]_vars

\* ================================================================ the text of an occurrence key
\* f"series:{lang}:{pf}:{base}:{sk}" (line 403) as the text it is: a sequence
\* of pieces in which every ':' is a piece of its own.  A word or a path
\* segment that holds a ':' is spelled piece by piece.
Spell(v) ==
    IF v = "csi:miami" THEN <<"csi", ":", "miami">>
    ELSE IF v = "get:csi" THEN <<"get", ":", "csi">>
    ELSE <<v>>

RECURSIVE SegsText(_)
SegsText(segs) ==
    IF segs = <<>> THEN <<>> ELSE <<"/">> \o Spell(Head(segs)) \o SegsText(Tail(segs))

\* f"{p.scheme}://{p.netloc}{base_path}"
BaseText(b) == <<b.scheme, ":", "//", b.netloc>> \o SegsText(b.segs)

\* the words of a series key, joined by single spaces
RECURSIVE SkText(_)
SkText(sk) ==
    IF sk = <<>> THEN <<>>
    ELSE Spell(Head(sk).v) \o (IF Len(sk) > 1 THEN <<" ">> ELSE <<>>) \o SkText(Tail(sk))

OccKeyText(k) ==
    <<"series", ":", k.lang, ":", k.pf, ":">> \o BaseText(k.base) \o <<":">> \o SkText(k.sk)

\* text.split(":", n): the pieces before the first n separators, then the rest
RECURSIVE SplitColon(_, _)
SplitColon(text, n) ==
    LET at == FirstOf({i \in 1..Len(text) : text[i] = ":"})
    IN  IF n = 0 \/ at = 0 THEN <<text>>
        ELSE <<SubSeq(text, 1, at - 1)>> \o SplitColon(SubSeq(text, at + 1, Len(text)), n - 1)

KeyTextTitles ==
    { <<PFX("EN"), W("miami", "T"), SE(1, 1)>>,
      <<PFX("EN"), W("csi:miami", "T"), SE(1, 1)>>,
      <<PFX("EN")>> \o BB("T") \o <<SE(1, 2)>> }
KeyTextUrls ==
    { [scheme |-> "http", netloc |-> "h", segs |-> p] :
        p \in {<<"get", "a.ts">>, <<"get:csi", "a.ts">>, <<"a.ts">>} }
KeyTextEntries ==
    {KeyEntry(t, u, c) : t \in KeyTextTitles, u \in KeyTextUrls, c \in KeyCodes}

InitKeyText ==
    /\ EnrichIdle
    /\ \E a \in KeyTextEntries, b \in KeyTextEntries :
          fx = [a |-> a, b |-> b, did |-> {}, keys |-> <<>>, parts |-> <<>>]
    /\ lk = Idle /\ rl = Idle /\ pb = Idle /\ wr = Idle /\ rn = Idle /\ ky = Idle

keytext_frame == UNCHANGED <<enrich_vars, lk, rl, pb, wr, rn, ky>>

\* lines 397-403 for both entries
KeyTextCompose ==
    /\ fx.did = {}
    /\ fx' = [fx EXCEPT !.did = {"compose"},
                        !.keys = <<OccKeyText(KeyOf(fx.a, DefaultLanguage)),
                                   OccKeyText(KeyOf(fx.b, DefaultLanguage))>>]
    /\ keytext_frame

\* lines 459-460: parts = occ_key.split(":", 4) on the key of the first entry
KeyTextSplit ==
    /\ fx.did = {"compose"}
    /\ fx' = [fx EXCEPT !.did = {"compose", "split"},
                        !.parts = SplitColon(fx.keys[1], 4)]
    /\ keytext_frame

NextKeyText == KeyTextCompose \/ KeyTextSplit

SpecKeyText == InitKeyText /\ [][NextKeyText]_vars

\* ================================================================ the multi search and its match
\* search/multi answers with a list of results of several kinds; the worker
\* turns the selected one into a row and the entry is rewritten.
MaxResults == 2

ItemPerson == Item(1, "person", <<W("bryan", "T")>>, <<>>, "/face.jpg", <<>>)
ItemMovie  == Item(2, "movie", <<>>, <<W("bad", "T")>>, "/m.jpg", <<2>>)
ItemSeries == Item(3, "tv", BB("U"), <<>>, "/s.jpg", <<1>>)
ItemOther  == Item(4, "tv", <<W("breaking", "T")>>, <<>>, "", <<9>>)
MultiItems == {ItemPerson, ItemMovie, ItemSeries, ItemOther}
MultiResults == UNION {[1..n -> MultiItems] : n \in 0..MaxResults}

InitMulti ==
    /\ EnrichIdle
    /\ \E rs \in MultiResults, d \in DetailOutcomes, n \in {1, 3} :
          fx = [results |-> rs, d |-> d, it |-> Pool[n], stage |-> "search",
                res |-> ErrRes(""), row |-> NegativeRow(0), out |-> Pool[n]]
    /\ lk = Idle /\ rl = Idle /\ pb = Idle /\ wr = Idle /\ rn = Idle /\ ky = Idle

multi_frame == UNCHANGED <<enrich_vars, lk, rl, pb, wr, rn, ky>>

\* lines 318-355: _search_multi on a 200 answer holding the results
MultiSearch ==
    /\ fx.stage = "search"
    /\ fx' = [fx EXCEPT !.stage = "worker", !.res = search_multi(ObjectReply(fx.results))]
    /\ multi_frame

\* lines 468-501: worker on what the search returned
MultiWorker ==
    /\ fx.stage = "worker"
    /\ LET k == KeyOf(fx.it, DefaultLanguage)
           index == BuildOccIndex(<<fx.it>>, DefaultLanguage)
           o == WorkerResultOn(k, index[k].sample_q, fx.res, fx.d, TvGenres, MovieGenres)
       IN  fx' = [fx EXCEPT !.stage = IF o.st = "failed" THEN "raised" ELSE "stored",
                            !.row = o.row]
    /\ multi_frame

\* lines 521-572 on the stored row
MultiApply ==
    /\ fx.stage = "stored"
    /\ LET k == KeyOf(fx.it, DefaultLanguage)
           index == BuildOccIndex(<<fx.it>>, DefaultLanguage)
       IN  fx' = [fx EXCEPT !.stage = "applied",
                            !.out = ApplyAll(<<fx.it>>, index, k :> fx.row)[1]]
    /\ multi_frame

NextMulti == MultiSearch \/ MultiWorker \/ MultiApply

SpecMulti == InitMulti /\ [][NextMulti]_vars

\* ================================================================ db.py, the streams table
\* The inventory is a table keyed by url.  Of the descriptive columns title
\* stands for the five the statements treat alike (title, group_title,
\* tvg_id, tvg_name, tvg_logo).  Times are the numbers of the calls.
MaxCalls == 2
MaxBatch == 2

StreamUrls == {"u1", "u2"}
StreamTitles == {"A", "B"}

StreamRow(title, status, checked, ok, fails) ==
    [title |-> title, status |-> status, last_checked |-> checked, last_ok |-> ok,
     fail_count |-> fails]
\* line 135-140: a row as INSERT leaves it (fail_count INTEGER DEFAULT 0)
FreshRow(title) == StreamRow(title, None, NoNum, NoNum, 0)
\* rows earlier runs can have left, with what was recorded for them
EarlierRows ==
    { [row |-> FreshRow("A"), seen |-> [status |-> None, fails |-> 0]],
      [row |-> StreamRow("A", "OK", 0, 0, 0), seen |-> [status |-> "OK", fails |-> 0]],
      [row |-> StreamRow("A", "FAIL", 0, NoNum, 1), seen |-> [status |-> "FAIL", fails |-> 1]] }

IngestItems == [url : StreamUrls, title : StreamTitles]
ProbeResults == [url : StreamUrls, ok : BOOLEAN]
Batches(S) == UNION {[1..n -> S] : n \in 0..MaxBatch}

\* lines 104-112: the staged rows, the first occurrence of a url kept
RECURSIVE Staged(_, _)
Staged(its, acc) ==
    IF its = <<>> THEN acc
    ELSE Staged(Tail(its),
                IF Head(its).url \in DOMAIN acc THEN acc
                ELSE acc @@ (Head(its).url :> Head(its).title))

\* a merge that writes staged rows over the rows of the table
ingest_stage_replace(streams, its) ==
    LET stage == Staged(its, <<>>)
    IN  [u \in DOMAIN streams \cup DOMAIN stage |->
            IF u \in DOMAIN stage THEN FreshRow(stage[u]) ELSE streams[u]]

\* lines 91-145: UPDATE the rows the stage names, INSERT the rows it adds
ingest_stage_merge(streams, its) ==
    LET stage == Staged(its, <<>>)
    IN  [u \in DOMAIN streams \cup DOMAIN stage |->
            IF u \in DOMAIN streams
            THEN (IF u \in DOMAIN stage THEN [streams[u] EXCEPT !.title = stage[u]]
                  ELSE streams[u])
            ELSE FreshRow(stage[u])]

\* line 179: one UPDATE ... status='OK' per row of ok_rows
RECURSIVE UpdateOk(_, _, _)
UpdateOk(streams, rows, now) ==
    IF rows = <<>> THEN streams
    ELSE UpdateOk(IF Head(rows) \in DOMAIN streams
                  THEN [streams EXCEPT ![Head(rows)] =
                           [@ EXCEPT !.status = "OK", !.last_checked = now,
                                     !.last_ok = now, !.fail_count = 0]]
                  ELSE streams,
                  Tail(rows), now)

\* line 181: one UPDATE ... status='FAIL' per row of fail_rows
RECURSIVE UpdateFail(_, _, _)
UpdateFail(streams, rows, now) ==
    IF rows = <<>> THEN streams
    ELSE UpdateFail(IF Head(rows) \in DOMAIN streams
                    THEN [streams EXCEPT ![Head(rows)] =
                             [@ EXCEPT !.status = "FAIL", !.last_checked = now,
                                       !.fail_count = @ + 1]]
                    ELSE streams,
                    Tail(rows), now)

\* lines 174-176: the urls of the results that are ok / not ok, in order
RECURSIVE UrlsWhere(_, _)
UrlsWhere(results, ok) ==
    IF results = <<>> THEN <<>>
    ELSE (IF Head(results).ok = ok THEN <<Head(results).url>> ELSE <<>>)
            \o UrlsWhere(Tail(results), ok)

\* lines 171-183: every OK update, then every FAIL update
save_probe_results(streams, results, now) ==
    UpdateFail(UpdateOk(streams, UrlsWhere(results, TRUE), now),
               UrlsWhere(results, FALSE), now)

\* history: the results recorded for the streams of the table, taken in
\* the order of the list
RECURSIVE Recorded(_, _, _)
Recorded(seen, results, known) ==
    IF results = <<>> THEN seen
    ELSE LET r == Head(results)
         IN  Recorded(IF r.url \notin known THEN seen
                      ELSE [seen EXCEPT ![r.url] =
                               IF r.ok THEN [status |-> "OK", fails |-> 0]
                               ELSE [status |-> "FAIL", fails |-> @.fails + 1]],
                      Tail(results), known)

InitInventory ==
    /\ EnrichIdle
    /\ \E us \in SUBSET StreamUrls : \E f \in [us -> EarlierRows] :
          fx = [streams |-> [u \in us |-> f[u].row],
                seen    |-> [u \in us |-> f[u].seen],
                calls   |-> 0,
                op      |-> "none",
                named   |-> {},                        \* urls of the last call
                prev    |-> [u \in us |-> f[u].row],   \* the table before it
                first   |-> <<>>,                      \* url -> first title given
                onlyfail |-> {}]                       \* urls it gave FAIL alone
    /\ lk = Idle /\ rl = Idle /\ pb = Idle /\ wr = Idle /\ rn = Idle /\ ky = Idle

inventory_frame == UNCHANGED <<enrich_vars, lk, rl, pb, wr, rn, ky>>

InventoryIngest ==
    /\ fx.calls < MaxCalls
    /\ \E its \in Batches(IngestItems) :
          LET after == ingest_stage_merge(fx.streams, its)
          IN  fx' = [fx EXCEPT
                       !.streams = after,
                       !.seen = [u \in DOMAIN after |->
                                   IF u \in DOMAIN fx.seen THEN fx.seen[u]
                                   ELSE [status |-> None, fails |-> 0]],
                       !.calls = @ + 1,
                       !.op = "ingest",
                       !.named = {its[i].url : i \in 1..Len(its)},
                       !.prev = fx.streams,
                       !.first = [u \in {its[i].url : i \in 1..Len(its)} |->
                                    its[FirstOf({i \in 1..Len(its) : its[i].url = u})].title],
                       !.onlyfail = {}]
    /\ inventory_frame

InventorySave ==
    /\ fx.calls < MaxCalls
    /\ \E results \in Batches(ProbeResults) :
          fx' = [fx EXCEPT
                   !.streams = save_probe_results(fx.streams, results, fx.calls + 1),
                   !.seen = Recorded(fx.seen, results, DOMAIN fx.streams),
                   !.calls = @ + 1,
                   !.op = "save",
                   !.named = {results[i].url : i \in 1..Len(results)},
                   !.prev = fx.streams,
                   !.first = <<>>,
                   !.onlyfail = {results[i].url : i \in 1..Len(results)}
                                  \ {results[i].url : i \in {j \in 1..Len(results) : results[j].ok}}]
    /\ inventory_frame

NextInventory == InventoryIngest \/ InventorySave

SpecInventory == InitInventory /\ [][NextInventory]_vars

\* ================================================================ probe.py, the progress line
\* The as_completed loop of probe_streams with an eye on its counters only:
\* every step is one completion collected (lines 91-112).
MaxProgressItems == 160
\* line 77: max(100, int(cfg["PROBE"].get("PROGRESS_EVERY", 1000)))
MinProgressEvery == 100
DefaultProgressEvery == 1000
\* PROBE.PROGRESS_EVERY of config.yaml; NoNum when it is not set
ProgressSettings == {NoNum, 50, 150}

tick(configured) ==
    LET n == IF configured = NoNum THEN DefaultProgressEvery ELSE configured
    IN  IF n < MinProgressEvery THEN MinProgressEvery ELSE n

InitProgress ==
    /\ EnrichIdle
    /\ \E total \in 1..MaxProgressItems, every \in ProgressSettings :
          fx = [total |-> total, PROGRESS_EVERY |-> every, completed |-> 0,
                last_print |-> 0,
                notes |-> <<>>]      \* the [completed/total] lines printed
    /\ lk = Idle /\ rl = Idle /\ pb = Idle /\ wr = Idle /\ rn = Idle /\ ky = Idle

progress_frame == UNCHANGED <<enrich_vars, lk, rl, pb, wr, rn, ky>>

\* lines 108-112
ProgressCollect ==
    /\ fx.completed < fx.total
    /\ LET completed == fx.completed + 1
           due == completed - fx.last_print >= tick(fx.PROGRESS_EVERY)
                     \/ completed = fx.total
       IN  fx' = [fx EXCEPT !.completed = completed,
                            !.last_print = IF due THEN completed ELSE @,
                            !.notes = IF due THEN Append(@, completed) ELSE @]
    /\ progress_frame

NextProgress == ProgressCollect

SpecProgress == InitProgress /\ [][NextProgress]_vars

\* ================================================================ claims
Input == lists[run]
Skipped == NoOp(Input, cfg)
Returned == pc = "returned" /\ ~Skipped
InputKey(i) == KeyOf(Input[i], cfg.LANGUAGE)
\* the cache held, when this call began, the outcome 'no match' for k
NegativeBefore(k) == k \in DOMAIN occ0 /\ occ0[k].last_error = "no results"
PositiveBefore(k) == k \in DOMAIN occ0 /\ Positive(occ0[k])

\* the part of a display title between the prefix and the season/episode suffix
SeriesPortion(d) ==
    LET se == {i \in 1..Len(d) : d[i].k = "se"}
        stop == IF se = {} THEN Len(d) + 1 ELSE CHOOSE i \in se : \A j \in se : i <= j
    IN  SubSeq(d, 2, stop - 1)

\* C1: a cluster key whose 'no match' outcome an earlier enrich call recorded
\* in the cache gets no search request in a later call on the same cache.
C1_NegativeNotRequeried ==
    \A k \in DOMAIN occ_index : NegativeBefore(k) => k \notin calls

\* C2: after enrich returns, two entries of the list with the same cluster
\* key carry the same group-title and the same series-name portion of
\* display_title, resolved or not.
C2_UniformCluster ==
    Returned =>
        \A i, j \in 1..Len(Input) :
            InputKey(i) = InputKey(j) =>
                /\ items[i].group = items[j].group
                /\ SeriesPortion(items[i].display_title) = SeriesPortion(items[j].display_title)

\* C3: 'EN - Breaking Bad S01 E01 Pilot' and 'EN - Breaking Bad 1080p S01 E05
\* Gray Matter' from the same host and parent path are put in one cluster
\* and, once enriched, carry the same group-title and series name.
C3_SameShowOneCluster ==
    \A i, j \in 1..Len(items) :
        (DOMAIN occ_index # {} /\ ~Skipped
            /\ Input[i] = Pool[1] /\ Input[j] = Pool[2]) =>
            /\ InputKey(i) = InputKey(j)
            /\ \E k \in DOMAIN occ_index :
                  {i, j} \subseteq {occ_index[k].indices[n].idx :
                                       n \in 1..Len(occ_index[k].indices)}
            /\ (pc = "returned" /\ Usable(InputKey(i)) /\ Usable(InputKey(j))) =>
                  /\ items[i].group = items[j].group
                  /\ SeriesPortion(items[i].display_title)
                        = SeriesPortion(items[j].display_title)

\* C4: in one pipeline run (enrich on the OK list, then on the FAIL list, one
\* cache) at most one lookup task is executed per cluster key.
C4_OneLookupPerKey ==
    \A k \in DOMAIN tasks : tasks[k] <= 1

\* C5: a cluster whose key has a positive record in the cache when the call
\* begins gets no search request, its record stays as it was, and its
\* members are rewritten from that record.
C5_CachedPositiveReused ==
    \A k \in DOMAIN occ_index :
        PositiveBefore(k) =>
            /\ k \notin calls
            /\ k \notin DOMAIN wk
            /\ occ[k] = occ0[k]
            /\ pc = "returned" =>
                  \A i \in 1..Len(Input) :
                     InputKey(i) = k =>
                        /\ items[i].group.name =
                              (IF occ0[k].primary_genre # None THEN occ0[k].primary_genre
                               ELSE "Uncategorized")
                        /\ occ0[k].title # <<>> =>
                              SeriesPortion(items[i].display_title)
                                 = base_noise_strip(strip_leading_prefix(occ0[k].title))
                        /\ occ0[k].poster_path # "" =>
                              items[i].logo = <<LogoHost, occ0[k].poster_path>>

C5_Witness ==
    /\ pc = "returned"
    /\ run = 2
    /\ \E k \in DOMAIN occ_index : PositiveBefore(k) /\ occ0[k].created_at = 1

\* C6: with the API credential unset, null, empty or blank, enrich does not
\* raise, sends no request, does not open or write the cache and returns the
\* entries as they were.
C6_NoCredentialNoOp ==
    cfg.API_KEY \in {None, "", "  "} =>
        /\ pc # "raised"
        /\ exc = None
        /\ ~io.opened
        /\ ~io.net
        /\ calls = {}
        /\ occ = <<>> /\ members = {} /\ genres = NoRow
        /\ pc = "returned" => items = Input

C6_Witness ==
    /\ cfg.API_KEY = "  "
    /\ pc = "returned"
    /\ run = 2
    /\ Len(lists[1]) > 0
    /\ Len(Input) > 0

\* C7: with a credential, enrich returns the same entries in the same
\* positions, and every member of an unresolved cluster has group-title
\* '|{prefix}| - Uncategorized' and a display title made of its own parsed
\* title, season and episode.
C7_UnresolvedWellFormed ==
    Returned =>
        /\ Len(items) = Len(Input)
        /\ \A i \in 1..Len(Input) :
              LET n  == normalize_series_and_episode(RawOf(Input[i]))
                  pf == detect_prefix(Input[i].group)
              IN  /\ items[i].url = Input[i].url
                  /\ ~Usable(InputKey(i)) =>
                        /\ items[i].group = [code |-> pf, name |-> "Uncategorized"]
                        /\ items[i].display_title
                              = Display(pf, n.series_query, n.season, n.episode, n.ep_name)
                        /\ items[i].logo = Input[i].logo

C7_Witness ==
    /\ Returned
    /\ Len(Input) = 2
    /\ \E i \in 1..Len(Input) : ~Usable(InputKey(i)) /\ InputKey(i) \in calls

\* C8: with a credential, no failure of the remote service (transport
\* error, bad status, body that is no JSON or has an unexpected shape) in
\* the genre-list fetch or in a lookup makes enrich raise.
C8_ExternalFailureNeverRaises ==
    exc \notin {"genre list request", "worker raised"}

\* C9: a failure to write the placeholder and member rows does not abort
\* enrich.
C9_MemberWriteFailureTolerated ==
    exc # "sqlite3.Error saving members"

\* C10: when a call ends, the outcome of every lookup that came to one has
\* been written to the cache exactly once, also when another worker raised
\* or the run was interrupted.
C10_OutcomeWrittenOnce ==
    (pc \in {"returned", "raised"}
        /\ exc \in {None, "worker raised", "KeyboardInterrupt"}) =>
        \A k \in DOMAIN wk :
            wk[k].st \in {"done", "collected"} => writes[k] = 1

\* the requests a lookup can send, in the order of line 468
LookupPlan == Plan(lk.k, lk.sample_q)

\* C11: in a cluster's lookup no searchMulti request is sent before searchTv
\* has been tried for every candidate query of that lookup; an error answer
\* does not stop the remaining candidates; the first request that answers
\* with a match ends the search and is the result.
C11_TvThenMulti ==
    /\ \A i, j \in 1..Len(lk.sent) :
          (lk.sent[i].ep = "multi" /\ i < j) => lk.sent[j].ep = "multi"
    /\ lk.st = "miss" => lk.sent = LookupPlan
    /\ lk.st = "hit" => lk.last.kind = "match"

\* C12: the requests of the concurrent lookup workers keep the configured
\* ceiling of R requests per second: no two requests are sent less than 1/R
\* apart, so N requests take at least (N-1)/R.
C12_RateCeiling ==
    \A i, j \in 1..Len(rl.sends) :
        i < j => (rl.sends[j] - rl.sends[i]) * rl.rps >= (j - i) * TicksPerSecond

ProbeDone == {i \in DOMAIN pb.fut : pb.fut[i] = "done"}
ProbeOk == {pb.ok[n] : n \in 1..Len(pb.ok)}
ProbeFail == {pb.fail[n] : n \in 1..Len(pb.fail)}
CleanExit(proc) == proc.how = "exit" /\ proc.code = 0

\* C13: an entry is reported OK only if ffprobe exited cleanly and reported
\* a non-empty codec name for a video stream; a clean exit that reports no
\* video stream yields FAIL.
C13_OkNeedsVideoStream ==
    \A i \in ProbeDone :
        /\ pb.items[i].status = "OK" => (CleanExit(pb.proc[i]) /\ pb.proc[i].codec # "")
        /\ (CleanExit(pb.proc[i]) /\ pb.proc[i].codec = "") => pb.items[i].status = "FAIL"

\* C14: an entry whose ffprobe run exits nonzero, cannot be run or times out
\* is reported FAIL with a non-empty note, the note being 'Timeout' when the
\* run timed out, and its last_ok is left as it was.
C14_FailureReported ==
    \A i \in ProbeDone :
        ~CleanExit(pb.proc[i]) =>
            /\ pb.items[i].status = "FAIL"
            /\ pb.items[i].probe_error \notin {"", None}
            /\ pb.proc[i].how = "timeout" => pb.items[i].probe_error = "Timeout"
            /\ pb.items[i].last_ok = pb.given[i].last_ok
            /\ i \notin ProbeOk
            /\ (pb.pc = "returned" /\ ~pb.intr) => i \in ProbeFail

C14_Witness ==
    /\ pb.pc = "returned"
    /\ ~pb.intr
    /\ \E i, j \in ProbeFail :
          /\ pb.proc[i] = TimedOut
          /\ pb.given[i].last_ok = "earlier"
          /\ pb.proc[j] = Exited(1, "", "")

\* C15: the timeout of an ffprobe run is the configured one capped at a
\* fixed maximum: the longest configured value is not used as it is.
C15_TimeoutCapped ==
    \A i \in DOMAIN pb.timeout : pb.timeout[i] < LongestTimeout

\* C16: once Ctrl+C has been received during probe_streams, no task that
\* had not started is started.
C16_NoStartAfterInterrupt ==
    pb.late = {}

\* C17: Ctrl+C during probe_streams does not leave it as an exception:
\* probe_streams returns, and its OK and FAIL lists hold exactly the entries
\* collected before the interrupt.
C17_InterruptReturnsPartial ==
    /\ pb.pc # "raised"
    /\ (pb.pc = "returned" /\ pb.intr) =>
          /\ pb.exc = None
          /\ <<pb.ok, pb.fail>> = pb.kept

C17_Witness ==
    /\ pb.pc = "returned"
    /\ pb.intr
    /\ Len(pb.ok) + Len(pb.fail) > 0
    /\ \E i \in ProbeDone : i \notin ProbeOk \cup ProbeFail

\* C18: the written order of a playlist is the same whatever order the probes
\* of its entries completed in, entries with equal sort keys and different
\* URLs included.
C18_OrderIndependentOfCompletion ==
    wr.pc = "written" => wr.out[1] = wr.out[2]

\* C19: when every attempt of the playlist download has failed, run_once has
\* ended with an error, no output file has been written and neither probing
\* nor lookups were started.
DownloadExhausted ==
    /\ Len(rn.log) = NumUserAgents
    /\ \A i \in 1..Len(rn.log) : rn.log[i] # Answered(HttpOk)
C19_DownloadFailureIsFatal ==
    DownloadExhausted =>
        /\ rn.pc = "raised"
        /\ rn.exc.type = "OSError"
        /\ rn.written = {}
        /\ \A i \in 1..Len(rn.calls) : rn.calls[i] \notin {"probe_streams", "tmdb_enrich"}
\* every user agent was refused or failed, by status and by exception both
C19_Witness ==
    /\ DownloadExhausted
    /\ rn.pc = "raised"
    /\ \E i, j \in 1..Len(rn.log) : rn.log[i] = Threw(ConnectionError) /\ rn.log[j] = Answered(403)

\* C20: two entries with the same prefix and the same non-empty title key are
\* put in the same cluster, whatever the hosts and parent paths of their URLs.
C20_KeyIsPrefixAndTitle ==
    \A i, j \in 1..Len(ky.key_of) :
        (/\ ky.key_of[i].pf = ky.key_of[j].pf
         /\ ky.key_of[i].sk = ky.key_of[j].sk
         /\ ky.key_of[i].sk # <<>>)
        => \E o \in DOMAIN ky.occ_index :
              /\ i \in Range(ky.occ_index[o])
              /\ j \in Range(ky.occ_index[o])

\* C21: the cluster an entry is put in is the one of the key computed from
\* the entry's own title, group label and URL and the language, whatever the
\* other entries, the order of the list and the rows of the cache.
Indexed == pc \in {"save", "load", "pool", "apply"}
MemberOf(n, k) == \E i \in 1..Len(occ_index[k].indices) : occ_index[k].indices[i].idx = n
Carried(code) == IF code \in UpperCodes THEN code ELSE ""
TitlePrefix(title) ==
    IF title # <<>> /\ Head(title).k = "pfx" THEN Carried(Head(title).v) ELSE ""
C22_PrefixGroupThenTitle ==
    "entry" \in fx.did =>
        fx.pf = IF Carried(fx.label.code) # "" THEN Carried(fx.label.code)
                ELSE IF TitlePrefix(fx.title) # "" THEN TitlePrefix(fx.title)
                ELSE "EN"

\* C25: detect_prefix gives the leading code in upper case, whatever case it
\* is written in, when a dash or pipe follows it, and 'EN' for a label that
\* has no leading code followed by a separator.
UpperOf(code) == IF code = "de" THEN "DE" ELSE code
C25_DetectPrefix ==
    "detect" \in fx.did =>
        fx.detected = IF fx.label.code # "" /\ fx.label.sep # ""
                      THEN UpperOf(fx.label.code) ELSE "EN"

\* C23: two differently decorated forms of the title of one show have the
\* same series key.
C23_SeriesKeyIgnoresDecoration ==
    "keys" \in fx.did => fx.keys[1] = fx.keys[2]

\* C24: the pair _strip_all_se_tokens returns is the one of the first
\* season/episode token of the text, and the text it returns holds no
\* season/episode token any more.
IsSeAt(text, i) ==
    \/ text[i].k = "se"
    \/ text[i].k = "hs" /\ i < Len(text) /\ text[i + 1].k = "he"
HasSe(text) == \E i \in 1..Len(text) : IsSeAt(text, i)
FirstSe(text) ==
    LET i == CHOOSE j \in 1..Len(text) : IsSeAt(text, j) /\ \A h \in 1..(j - 1) : ~IsSeAt(text, h)
    IN  IF text[i].k = "se" THEN <<text[i].s, text[i].e>> ELSE <<text[i].s, text[i + 1].e>>
C24_StripAllSeTokens ==
    "strip" \in fx.did =>
        /\ <<fx.stripped.s, fx.stripped.e>> =
              IF HasSe(fx.a) THEN FirstSe(fx.a) ELSE <<NoNum, NoNum>>
        /\ ~HasSe(fx.stripped.text)

\* C26: the candidates of a query are at most six, hold no duplicate, start
\* with the query itself, come in the order query, before-dash,
\* before-parenthesis, before-colon, token prefixes from long to short, hold
\* no token prefix of fewer than two tokens, and are none for an empty query.
PiecesInOrder(q) ==
    <<q, BeforeDash(q), BeforeParen(q), BeforeColon(q)>>
        \o [n \in 1..(IF Len(q) > 2 THEN Len(q) - 2 ELSE 0) |-> SubSeq(q, 1, Len(q) - n)]
\* cands[from..] can be matched, in order, to pieces[at..]
RECURSIVE InOrder(_, _, _, _)
InOrder(cands, from, pieces, at) ==
    IF from > Len(cands) THEN TRUE
    ELSE IF at > Len(pieces) THEN FALSE
    ELSE IF cands[from] = pieces[at] /\ InOrder(cands, from + 1, pieces, at + 1) THEN TRUE
    ELSE InOrder(cands, from, pieces, at + 1)
KnownAt(ids, gmap) == {i \in 1..Len(ids) : ids[i] \in DOMAIN gmap}
GenreExpected(res, tvmap, moviemap, d) ==
    LET gmap == IF res.media_type = "tv" THEN tvmap ELSE moviemap
        at   == KnownAt(res.genre_ids, gmap)
    IN  IF at # {} THEN gmap[res.genre_ids[CHOOSE i \in at : \A j \in at : i <= j]]
        ELSE IF d # None THEN d
        ELSE "Uncategorized"
C27_GenreOfMatch ==
    (fx.stage = "applied" /\ fx.res.kind = "match" /\ fx.res.media_type \in {"tv", "movie"}) =>
        fx.out.group = [code |-> KeyOf(fx.it, DefaultLanguage).pf,
                        name |-> GenreExpected(fx.res, fx.tv, fx.movie, fx.d)]
\* a movie whose second id is the first the movie taxonomy knows
C27_Witness ==
    /\ fx.stage = "applied"
    /\ fx.res.media_type = "movie"
    /\ fx.res.genre_ids = <<9, 2>>
    /\ fx.movie = MovieGenres
    /\ fx.tv = Crime
    /\ fx.out.group.name = "Action"

\* C28: the logo of an entry becomes the image host plus the poster path
\* when its cluster has a tv or movie match with a poster, and stays as it
\* was for every other entry.
C28_LogoOnlyWithPoster ==
    fx.stage = "applied" =>
        fx.out.logo = IF /\ fx.res.kind = "match"
                         /\ fx.res.media_type \in {"tv", "movie"}
                         /\ fx.res.poster_path # ""
                      THEN <<"https://image.tmdb.org/t/p/w154", fx.res.poster_path>>
                      ELSE fx.it.logo
\* an entry whose match has no poster keeps the logo it came with
C28_Witness ==
    /\ fx.stage = "applied"
    /\ fx.res.kind = "match"
    /\ fx.res.media_type = "tv"
    /\ fx.res.poster_path = ""
    /\ fx.it.logo = <<"http://logos", "/provider.png">>
    /\ fx.out.logo = fx.it.logo

\* C29: a cluster is taken as a cache hit only when the cache holds a
\* positive row whose media kind is the cluster's hint (tv when some member
\* carries a season/episode pair, movie otherwise); a cluster whose positive
\* row is of the other kind is looked up.
Loaded == pc \in {"pool", "apply"}
KindHint(k) ==
    IF \E i \in 1..Len(occ_index[k].indices) :
           occ_index[k].indices[i].s # NoNum /\ occ_index[k].indices[i].e # NoNum
    THEN "tv" ELSE "movie"
C29_HitNeedsMatchingKind ==
    Loaded =>
        \A k \in DOMAIN occ_index :
            k \notin DOMAIN wk =>
                /\ k \in DOMAIN occ
                /\ Positive(occ[k])
                /\ occ[k].media_type = KindHint(k)

\* C30: once a taxonomy row for the language is stored, an enrich run reads
\* it and sends no genre-list request, also when the row holds the empty
\* lists of a failed fetch.
C30_TaxonomyFetchedOnce ==
    [][(pc = "genres" /\ genres.has) => io'.net = FALSE]_vars

\* C31: after enrich the display title of an entry is the prefix, the
\* resolved or fallback title, ' Sxx Eyy' exactly when its raw title holds a
\* season/episode pair, then the text the raw title carried after that pair;
\* season and episode of the entry are the parsed pair.
FirstSePos(txt) == FirstOf({i \in 1..Len(txt) : txt[i].k = "se"})
C31_DisplayTitle ==
    fx.stage = "applied" =>
        LET body  == strip_leading_prefix(RawOf(fx.it))
            p     == FirstSePos(body)
            head  == base_noise_strip(IF p = 0 THEN body ELSE SubSeq(body, 1, p - 1))
            tail  == IF p = 0 THEN <<>>
                     ELSE base_noise_strip(SubSeq(body, p + 1, Len(body)))
            hit   == Positive(fx.row)
            name  == IF hit /\ fx.row.title # <<>>
                     THEN base_noise_strip(strip_leading_prefix(fx.row.title)) ELSE head
        IN  /\ fx.out.display_title =
                   <<PFX(KeyOf(fx.it, DefaultLanguage).pf)>> \o name
                       \o (IF p = 0 THEN <<>> ELSE <<SE(body[p].s, body[p].e)>>) \o tail
            /\ fx.out.season = (IF p = 0 THEN NoNum ELSE body[p].s)
            /\ fx.out.episode = (IF p = 0 THEN NoNum ELSE body[p].e)

\* C32: in a probe_streams call without Ctrl+C no more than
\* max(1, parallelism) tasks run at a time, one task is run per entry, and
\* on return every entry is in exactly one of the OK and FAIL lists, in OK
\* iff its status is 'OK'.
C32_EveryEntryInOneList ==
    /\ Cardinality(ProbeRunning) <= (IF pb.PARALLELISM < 1 THEN 1 ELSE pb.PARALLELISM)
    /\ (pb.pc = "returned" /\ ~pb.intr) =>
          /\ \A i \in 1..Len(pb.items) : pb.fut[i] \in {"done", "failed"}
          /\ Len(pb.ok) + Len(pb.fail) = Len(pb.items)
          /\ \A i \in 1..Len(pb.items) :
                /\ i \in ProbeOk \cup ProbeFail
                /\ ~(i \in ProbeOk /\ i \in ProbeFail)
                /\ i \in ProbeOk <=> pb.items[i].status = "OK"

\* C33: two entries whose prefix, provider base or series key differ are
\* never given the same cluster key, also when the provider base or the
\* series key holds a ':'.
KeyTriple(it) ==
    LET k == KeyOf(it, DefaultLanguage) IN <<k.pf, k.base, k.sk>>
C33_DistinctTriplesDistinctKeys ==
    "compose" \in fx.did =>
        (KeyTriple(fx.a) # KeyTriple(fx.b) => fx.keys[1] # fx.keys[2])

\* C34: the worker's split of a cluster key gives back the language, the
\* prefix, the provider base and the series key the key was composed from.
C34_SplitRecoversKey ==
    "split" \in fx.did =>
        LET k == KeyOf(fx.a, DefaultLanguage)
        IN  /\ Len(fx.parts) = 5
            /\ fx.parts[2] = <<k.lang>>
            /\ fx.parts[3] = <<k.pf>>
            /\ fx.parts[4] = BaseText(k.base)
            /\ fx.parts[5] = SkText(k.sk)

\* C35: the multi search selects the first tv result when there is one, else
\* the first result; the cluster counts as resolved (genre group, resolved
\* title, poster) only when the selected result is of kind tv or movie, and
\* a result of another kind leaves the entry Uncategorized with the title
\* derived from its own raw title.
Selected(results) ==
    LET tv == {i \in 1..Len(results) : results[i].media_type = "tv"}
    IN  results[IF tv = {} THEN 1 ELSE CHOOSE i \in tv : \A j \in tv : i <= j]
C35_MultiSelection ==
    /\ (fx.stage # "search" /\ fx.results # <<>>) =>
          /\ fx.res.kind = "match"
          /\ fx.res.tmdb_id = Selected(fx.results).id
          /\ fx.res.media_type = Selected(fx.results).media_type
    /\ (fx.stage = "applied" /\ fx.results # <<>>) =>
          LET sel   == Selected(fx.results)
              n     == normalize_series_and_episode(RawOf(fx.it))
              pf    == KeyOf(fx.it, DefaultLanguage).pf
              name  == IF sel.name # <<>> THEN sel.name ELSE sel.title
              se    == IF n.season # NoNum /\ n.episode # NoNum
                       THEN <<SE(n.season, n.episode)>> ELSE <<>>
          IN  IF sel.media_type \in {"tv", "movie"}
              THEN /\ fx.out.group.name # "Uncategorized" \/ fx.row.primary_genre = None
                   /\ fx.out.display_title = <<PFX(pf)>> \o name \o se \o n.ep_name
                   /\ fx.out.logo = IF sel.poster_path # ""
                                    THEN <<"https://image.tmdb.org/t/p/w154", sel.poster_path>>
                                    ELSE fx.it.logo
              ELSE /\ fx.out.group = [code |-> pf, name |-> "Uncategorized"]
                   /\ fx.out.display_title = <<PFX(pf)>> \o n.series_query \o se \o n.ep_name
                   /\ fx.out.logo = fx.it.logo
\* a tv result behind a movie is the one selected
C35_Witness ==
    /\ fx.stage = "applied"
    /\ fx.results = <<ItemMovie, ItemSeries>>
    /\ fx.out.group.name = "Drama"
\* a person alone leaves the entry unresolved
C35_WitnessOther ==
    /\ fx.stage = "applied"
    /\ fx.results = <<ItemPerson>>
    /\ fx.out.group.name = "Uncategorized"

\* C36: after any save_probe_results calls the fail_count of a stream is the
\* number of FAIL results recorded for it since its latest OK result, its
\* status is that of its latest result, a FAIL result leaves last_ok as it
\* was, and a stream the call does not name is unchanged.
C36_FailCountSinceLastOk ==
    /\ \A u \in DOMAIN fx.streams :
          /\ fx.streams[u].fail_count = fx.seen[u].fails
          /\ fx.streams[u].status = fx.seen[u].status
    /\ fx.op = "save" =>
          \A u \in DOMAIN fx.streams :
             /\ u \in fx.onlyfail => fx.streams[u].last_ok = fx.prev[u].last_ok
             /\ u \notin fx.named => fx.streams[u] = fx.prev[u]

\* C37: ingest_stage_merge changes only the descriptive fields of the
\* streams it names that are in the inventory, inserts every new url once
\* with no probe status, leaves every other stream as it was, and takes the
\* first occurrence of a url that its input repeats.
C37_IngestKeepsProbeFields ==
    fx.op = "ingest" =>
        /\ DOMAIN fx.streams = DOMAIN fx.prev \cup fx.named
        /\ \A u \in DOMAIN fx.prev :
              IF u \in fx.named
              THEN fx.streams[u] = [fx.prev[u] EXCEPT !.title = fx.first[u]]
              ELSE fx.streams[u] = fx.prev[u]
        /\ \A u \in fx.named \ DOMAIN fx.prev :
              fx.streams[u] = [title |-> fx.first[u], status |-> None,
                               last_checked |-> NoNum, last_ok |-> NoNum, fail_count |-> 0]
\* an input that names a probed stream twice and adds a new one
C37_Witness ==
    /\ fx.op = "ingest"
    /\ "u1" \in DOMAIN fx.prev /\ fx.prev["u1"].status = "FAIL"
    /\ "u2" \notin DOMAIN fx.prev /\ "u2" \in DOMAIN fx.streams
    /\ fx.streams["u1"].title = "B"
    /\ fx.streams["u1"].fail_count > 0

\* C38: the playlist download tries the user agents in order, stops at the
\* first 200 answer, and raises only after every attempt has failed, the
\* failure carrying the HTTP status or the transport error of the last
\* attempt.
C38_DownloadFailureOfLastAttempt ==
    /\ \A i \in 1..(Len(rn.log) - 1) : rn.log[i] # Answered(HttpOk)
    /\ (rn.pc = "raised"
          /\ rn.exc.text \in {"Download failed: ", "Download failed (last status "}) =>
          LET last == rn.log[Len(rn.log)]
          IN  /\ Len(rn.log) = NumUserAgents
              /\ \A i \in 1..Len(rn.log) : rn.log[i] # Answered(HttpOk)
              /\ IF last.exc # None
                 THEN rn.exc.cause = last.exc
                 ELSE rn.exc.cause = None /\ rn.exc.status = last.status

\* C39: during probe_streams a progress line is printed each time N further
\* completions were collected since the last line, N being the configured
\* PROGRESS_EVERY, and one when the last entry completes; the counter of
\* completions never exceeds the number of entries.
C39_ProgressEveryN ==
    LET n == IF fx.PROGRESS_EVERY = NoNum THEN 1000 ELSE fx.PROGRESS_EVERY
    IN  /\ fx.completed <= fx.total
        /\ fx.completed - fx.last_print < n
        /\ fx.completed = fx.total => fx.last_print = fx.total
        /\ \A i \in 1..Len(fx.notes) :
              \/ fx.notes[i] = fx.total
              \/ fx.notes[i] - (IF i = 1 THEN 0 ELSE fx.notes[i - 1]) = n

====
